---- MODULE Spec2Model ----
(***************************************************************************)
(* Credential and session core of the logos-waitlist server:               *)
(*   AdminService           (server/src/index.js, second half)             *)
(*   auth routes            (server/src/services/waitlist.service.js,      *)
(*                           second half: express router of /api/auth)     *)
(*   middleware/auth.js     (landing/README.md, lines 366-559)             *)
(*                                                                         *)
(* Every request is handled by one of the processes in Procs.  A handler   *)
(* runs synchronously between two awaits; the awaits (bcrypt.compare,      *)
(* bcrypt.hash, simulateDelay) are the only points where another request   *)
(* can run, so every handler is cut into actions exactly there.            *)
(*                                                                         *)
(* Time is a counter of ticks.  The durations of the program are scaled   *)
(* to ticks, keeping their order: the lockout (15 min) is LockTicks, the   *)
(* life of an access token ('24h') DayTicks, that of a refresh token and   *)
(* of its row (7 days) RefreshTicks.  A stored timestamp is a text of a    *)
(* date and a time of day; a date is DayTicks ticks long.                  *)
(***************************************************************************)
EXTENDS Integers, Sequences, FiniteSets, TLC

(***************************************************************************)
(* Bounds of the model                                                     *)
(***************************************************************************)
NumProcs == 2
MaxTime == 3
DayTicks == 2
LockTicks == 1
RefreshTicks == 2
MaxRows == 3
MaxIssued == 5
MaxAudit == 2
MaxAdmins == 2
NumAddrs == 1
MaxHits == 7

(***************************************************************************)
(* Program constants                                                       *)
(***************************************************************************)
MAX_LOGIN_ATTEMPTS == 5
MIN_PASSWORD_LENGTH == 8
MIN_USERNAME_LENGTH == 3

Procs == 1..NumProcs
\* the client addresses (req.ip) whose login requests the limiter counts
Addrs == 1..NumAddrs
\* loginRateLimiter: max, and windowMs (15 minutes, as the lockout)
LOGIN_RATE_MAX == 5
LOGIN_RATE_WINDOW == LockTicks

\* LOCKOUT_DURATION (15 minutes) in ticks
LOCKOUT_DURATION == LockTicks
\* JWT_EXPIRES_IN ('24h') in ticks
JWT_EXPIRES_IN == DayTicks
\* process.env.JWT_REFRESH_EXPIRES_IN in ticks: unset (the default '7d'), or
\* set to a longer life
RefreshConfigs == {RefreshTicks, RefreshTicks + DayTicks}
\* the 7 days of the stored expiry computed by POST /login
REFRESH_ROW_LIFETIME == RefreshTicks

(***************************************************************************)
(* Characters and strings.  A string the code inspects character by        *)
(* character (usernames, passwords) is a sequence of one-character         *)
(* strings.                                                                *)
(***************************************************************************)
UpperChars == <<"A", "B", "D", "I", "M", "N", "O", "P", "S", "W", "Y">>
LowerChars == <<"a", "b", "d", "i", "m", "n", "o", "p", "s", "w", "y">>
DigitChars == {"0", "1", "2", "3", "4", "5", "6", "7", "8", "9"}
Whitespace == {" "}

Range(s) == {s[i] : i \in DOMAIN s}

\* String.prototype.toLowerCase on one character
LowerChar(c) ==
  IF \E i \in DOMAIN UpperChars : UpperChars[i] = c
  THEN LowerChars[CHOOSE i \in DOMAIN UpperChars : UpperChars[i] = c]
  ELSE c

\* a conversion that leaves the case as it is
ToLowerCase_Keeps(s) == s

\* String.prototype.toLowerCase
ToLowerCase(s) == [i \in DOMAIN s |-> LowerChar(s[i])]

RECURSIVE TrimLeft(_)
TrimLeft(s) ==
  IF s # <<>> /\ Head(s) \in Whitespace THEN TrimLeft(Tail(s)) ELSE s

RECURSIVE TrimRight(_)
TrimRight(s) ==
  IF s # <<>> /\ s[Len(s)] \in Whitespace
  THEN TrimRight(SubSeq(s, 1, Len(s) - 1))
  ELSE s

\* String.prototype.trim and validator's trim()
Trim(s) == TrimRight(TrimLeft(s))

\* validator's escape(): HTML entities for < > & ' " / (the characters of
\* the model's alphabet it rewrites are < and &)
EscapeChar(c) ==
  CASE c = "<" -> <<"&", "l", "t", ";">>
    [] c = ">" -> <<"&", "g", "t", ";">>
    [] c = "&" -> <<"&", "a", "m", "p", ";">>
    [] OTHER -> <<c>>

RECURSIVE Escape(_)
Escape(s) == IF s = <<>> THEN <<>> ELSE EscapeChar(Head(s)) \o Escape(Tail(s))

\* /^(?=.*[a-z])(?=.*[A-Z])(?=.*\d)/
MatchesComplexity(s) ==
  /\ \E i \in DOMAIN s : s[i] \in Range(LowerChars)
  /\ \E i \in DOMAIN s : s[i] \in Range(UpperChars)
  /\ \E i \in DOMAIN s : s[i] \in DigitChars

(***************************************************************************)
(* Timestamps.  The code keeps them as text in two formats:                *)
(*   Date.prototype.toISOString()   'YYYY-MM-DDTHH:MM:SS.sssZ'              *)
(*   SQLite CURRENT_TIMESTAMP       'YYYY-MM-DD HH:MM:SS'                   *)
(* modelled as <<day, separator, time of day>>; NULL is the empty text.    *)
(***************************************************************************)
NULL == <<>>

ToISOString(t) == <<t \div DayTicks, "T", t % DayTicks>>

CURRENT_TIMESTAMP(t) == <<t \div DayTicks, " ", t % DayTicks>>

\* new Date(text): the instant a stored text denotes
ParseDate(s) == s[1] * DayTicks + s[3]

\* code point of a separator character
CharCode(c) == IF c = "T" THEN 84 ELSE 32

\* SQLite's comparison of two TEXT values (BINARY collation): the first
\* differing position decides
TextLess(a, b) ==
  \/ a[1] < b[1]
  \/ a[1] = b[1] /\ CharCode(a[2]) < CharCode(b[2])
  \/ a[1] = b[1] /\ CharCode(a[2]) = CharCode(b[2]) /\ a[3] < b[3]

(***************************************************************************)
(* bcrypt and sha256: one-way, so a hash is the tagged preimage and the    *)
(* only use of it is the comparison.                                       *)
(***************************************************************************)
BcryptHash(password) == [bcrypt |-> password]

\* a comparison that accepts every password
BcryptCompare_AcceptsAll(password, hash) == hash = hash

BcryptCompare(password, hash) == hash = BcryptHash(password)

Sha256(token) == [sha256 |-> token]

(***************************************************************************)
(* JSON web tokens (middleware/auth.js).  jwt.sign is deterministic in     *)
(* the payload and the issue time.                                         *)
(***************************************************************************)
\* process.env.JWT_REFRESH_EXPIRES_IN || '7d', read once when the process starts
VARIABLE JWT_REFRESH_EXPIRES_IN

Undefined == <<"undefined">>

GenerateAccessToken(user, t) ==
  [id |-> user.id, username |-> user.username, role |-> user.role,
   type |-> "undefined", iat |-> t, exp |-> t + JWT_EXPIRES_IN,
   signed |-> TRUE]

GenerateRefreshToken(user, t) ==
  [id |-> user.id, username |-> Undefined, role |-> "undefined",
   type |-> "refresh", iat |-> t, exp |-> t + JWT_REFRESH_EXPIRES_IN,
   signed |-> TRUE]

\* a token that was not signed with JWT_SECRET
ForgedToken ==
  [id |-> 1, username |-> Undefined, role |-> "undefined",
   type |-> "refresh", iat |-> 0, exp |-> MaxTime + RefreshTicks + 1,
   signed |-> FALSE]

\* no token in the request (cookie and body field both missing)
NoToken ==
  [id |-> 0, username |-> Undefined, role |-> "undefined",
   type |-> "undefined", iat |-> 0, exp |-> 0, signed |-> FALSE]

\* jwt.verify(token, JWT_SECRET): "ok", or the name of the error thrown
JwtVerify(token, t) ==
  IF ~token.signed THEN "JsonWebTokenError"
  ELSE IF t >= token.exp THEN "TokenExpiredError"
  ELSE "ok"

(***************************************************************************)
(* Inputs                                                                  *)
(***************************************************************************)
U_admin == <<"a", "d", "m", "i", "n">>
U_Admin_sp == <<" ", "A", "d", "m", "i", "n">>
U_nobody == <<"n", "o", "b", "o", "d", "y">>
U_bob == <<"b", "o", "b">>

P_admin123 == <<"a", "d", "m", "i", "n", "1", "2", "3">>
P_wrong == <<"w", "r", "o", "n", "g", "p", "w", "1">>
P_new == <<"N", "e", "w", "p", "a", "s", "s", "1">>
P_bob == <<"B", "o", "b", "s", "p", "w", "0", "1">>
P_short == <<"b", "a", "d">>
U_BOB_sp == <<" ", "B", "O", "B", " ">>
U_Ab_sp == <<"A", "b", " ">>


(***************************************************************************)
(* State                                                                   *)
(***************************************************************************)
VARIABLES
  now,              \* the clock: Date.now() and SQLite's CURRENT_TIMESTAMP
  admins,           \* table admins, in id order (AUTOINCREMENT ids 1, 2, ...)
  refresh_tokens,   \* table refresh_tokens, a set of rows
  token_seq,        \* AUTOINCREMENT counter of refresh_tokens
  admin_audit_log,  \* table admin_audit_log, in insertion order
  issued,           \* the signed tokens handed to clients so far
  loginLimiter,     \* the MemoryStore of loginRateLimiter and the keys of
                    \* the requests whose response has not finished
  pc,               \* per request process: where its handler is suspended
  req,              \* per request process: the request being (or last) handled
  local,            \* per request process: the handler's `admin` row
  client,           \* the admin dashboard in one browser: the state of
                    \* AuthProvider, localStorage, the cookie jar and the
                    \* position of each of its async functions
  resp              \* the response the last step sent (NoResponse if none),
                    \* with the request it answers

vars == <<JWT_REFRESH_EXPIRES_IN, now, admins, refresh_tokens, token_seq, admin_audit_log, issued,
          loginLimiter, pc, req, local, client, resp>>

\* a row of admins (email and created_at take no part in any decision)
AdminRow(id, username, hash) ==
  [id |-> id, username |-> username, password |-> hash, role |-> "admin",
   last_login |-> NULL, login_attempts |-> 0, locked_until |-> NULL,
   is_active |-> TRUE]

\* `undefined` result of a SELECT ... .get()
NoAdmin == [AdminRow(0, <<>>, BcryptHash(<<>>)) EXCEPT !.role = "undefined"]

\* a copy that keeps every column
WithoutPassword_Keeps(row) == row

\* const { password, ...safe } = row
WithoutPassword(row) == [f \in DOMAIN row \ {"password"} |-> row[f]]

NoUser == WithoutPassword(NoAdmin)

Request(op, username, password, newPassword, token, refreshToken) ==
  [op |-> op, username |-> username, password |-> password,
   newPassword |-> newPassword, token |-> token, refreshToken |-> refreshToken]

NoRequest == Request("none", <<>>, <<>>, <<>>, NoToken, NoToken)

\* res.status(status).json({success, error, code, data}), answering request r
Response(r, status, error, code) ==
  [req |-> r, status |-> status, error |-> error, code |-> code,
   minutesLeft |-> 0, user |-> NoUser, users |-> {}, accessToken |-> NoToken,
   refreshToken |-> NoToken]

NoResponse == Response(NoRequest, 0, "", "")

AuditEntry(adminId, action, success, details) ==
  [admin_id |-> adminId, action |-> action, success |-> success,
   details |-> details]

\* an audit write that keeps the newest entry only
LogAudit_KeepsNewest(log, adminId, action, success, details) ==
  <<AuditEntry(adminId, action, success, details)>>

\* an audit write that is skipped
LogAudit_Skipped(log, adminId, action, success, details) == log

\* AdminService.logAudit
LogAudit(log, adminId, action, success, details) ==
  Append(log, AuditEntry(adminId, action, success, details))

\* SELECT * FROM admins WHERE username = ?
AdminByUsername(username) ==
  IF \E i \in DOMAIN admins : admins[i].username = username
  THEN admins[CHOOSE i \in DOMAIN admins : admins[i].username = username]
  ELSE NoAdmin

\* SELECT ... FROM admins WHERE id = ?
AdminById(id) == IF id \in DOMAIN admins THEN admins[id] ELSE NoAdmin

\* INSERT INTO refresh_tokens (admin_id, token_hash, expires_at)
StoreRefreshToken(rows, seq, adminId, tokenHash, expiresAt) ==
  rows \cup {[id |-> seq + 1, admin_id |-> adminId, token_hash |-> tokenHash,
              expires_at |-> expiresAt, revoked |-> FALSE]}

\* a success branch that leaves the attempt counter alone
SuccessRow_KeepsAttempts(row, t) ==
  [row EXCEPT !.locked_until = NULL, !.last_login = CURRENT_TIMESTAMP(t)]

\* the admin row the success branch of authenticate writes
SuccessRow(row, t) ==
  [row EXCEPT !.login_attempts = 0, !.locked_until = NULL,
              !.last_login = CURRENT_TIMESTAMP(t)]

\* the dashboard before it is mounted: nothing stored, nothing in flight
\* (null is NoUser / NoToken; a status of 0 is a fetch that has not settled,
\* of -1 one that was rejected by the network)
NoClient ==
  [crossOrigin |-> TRUE, user |-> NoUser, token |-> NoToken, storage |-> NoToken,
   cookie |-> NoToken, refreshCookie |-> NoToken, loading |-> TRUE,
   checkAuth |-> "unmounted", storedToken |-> NoToken,
   login |-> "idle", logout |-> "idle", changePassword |-> "idle",
   bearer |-> NoToken, api |-> "idle", apiStatus |-> 0]

\* new MemoryStore(): no key has hits, no response is awaited
NoHits ==
  [hits |-> [a \in Addrs |-> 0], resetTime |-> [a \in Addrs |-> 0],
   key |-> [p \in Procs |-> 0]]

\* AdminService.createDefaultAdmin: the seeded admin/admin123
DefaultAdmin == AdminRow(1, U_admin, BcryptHash(P_admin123))

\* The constructor opens data/admin.db and seeds the default admin only when
\* the table is empty, so the service starts over whatever an earlier run
\* left.  admin_audit_log holds the rows written since the start: older
\* rows are touched by no operation.
Start(refreshExpiresIn, persistedAdmins, persistedTokens, held) ==
  /\ JWT_REFRESH_EXPIRES_IN = refreshExpiresIn
  /\ now = 0
  /\ admins = persistedAdmins
  /\ refresh_tokens = persistedTokens
  /\ token_seq = Cardinality(persistedTokens)
  /\ admin_audit_log = <<>>
  /\ issued = held
  /\ loginLimiter = NoHits
  /\ pc = [p \in Procs |-> "idle"]
  /\ req = [p \in Procs |-> NoRequest]
  /\ local = [p \in Procs |-> NoAdmin]
  /\ client = NoClient
  /\ resp = NoResponse

\* the second admin, created through POST /create-admin in an earlier run
SecondAdmin == AdminRow(2, U_bob, BcryptHash(P_bob))

\* the first start (the seeded admin alone), or a later start with the
\* second admin created and logged in just before (his row in
\* refresh_tokens and the token pair he holds, JWT_SECRET being kept in .env)
Init ==
  \/ \E e \in RefreshConfigs : Start(e, <<DefaultAdmin>>, {}, {})
  \/ \E e \in RefreshConfigs :
       Start(e, <<DefaultAdmin, SuccessRow(SecondAdmin, 0)>>,
           StoreRefreshToken({}, 0, 2,
             Sha256(GenerateRefreshToken(WithoutPassword(SecondAdmin), 0)),
             ToISOString(REFRESH_ROW_LIFETIME)),
           {GenerateAccessToken(WithoutPassword(SecondAdmin), 0),
            GenerateRefreshToken(WithoutPassword(SecondAdmin), 0)})

\* a start over a table in which failed attempts are counted and no lock set
InitLockout ==
  \E k \in 0..(MAX_LOGIN_ATTEMPTS - 1) :
     Start(RefreshTicks, <<[DefaultAdmin EXCEPT !.login_attempts = k]>>, {}, {})

\* the passage of time
Tick ==
  /\ now < MaxTime
  /\ now' = now + 1
  /\ resp' = NoResponse
  /\ UNCHANGED <<client, loginLimiter, JWT_REFRESH_EXPIRES_IN, admins, refresh_tokens, token_seq, admin_audit_log, issued,
                 pc, req, local>>

(***************************************************************************)
(* POST /api/auth/login and AdminService.authenticate                      *)
(***************************************************************************)
\* a lock test with the comparison turned round
LockInForce_Reversed(admin, t) ==
  admin.locked_until # NULL /\ ParseDate(admin.locked_until) < t

\* `lockUntil > new Date()` of authenticate
LockInForce(admin, t) ==
  admin.locked_until # NULL /\ ParseDate(admin.locked_until) > t

\* Math.ceil((lockUntil - new Date()) / 60000), a tick being 15/LockTicks min
MinutesLeft(admin, t) ==
  ((ParseDate(admin.locked_until) - t) * 15 + LockTicks - 1) \div LockTicks

\* UPDATE admins SET login_attempts = 0, locked_until = NULL WHERE id = ?
ResetAttempts(rows, id) ==
  [rows EXCEPT ![id].login_attempts = 0, ![id].locked_until = NULL]

\* a mismatch branch that locks one attempt late
FailedAttemptRow_LocksLate(row, admin, t) ==
  LET newAttempts == admin.login_attempts + 1
      shouldLock == newAttempts > MAX_LOGIN_ATTEMPTS
  IN [row EXCEPT !.login_attempts = newAttempts,
                 !.locked_until = IF shouldLock
                                  THEN ToISOString(t + LOCKOUT_DURATION)
                                  ELSE NULL]

\* a mismatch branch that stamps the login time as well
FailedAttemptRow_StampsLogin(row, admin, t) ==
  LET newAttempts == admin.login_attempts + 1
      shouldLock == newAttempts >= MAX_LOGIN_ATTEMPTS
  IN [row EXCEPT !.login_attempts = newAttempts,
                 !.locked_until = IF shouldLock
                                  THEN ToISOString(t + LOCKOUT_DURATION)
                                  ELSE NULL,
                 !.last_login = CURRENT_TIMESTAMP(t)]

\* the admin row the mismatch branch of authenticate writes
FailedAttemptRow(row, admin, t) ==
  LET newAttempts == admin.login_attempts + 1
      shouldLock == newAttempts >= MAX_LOGIN_ATTEMPTS
  IN [row EXCEPT !.login_attempts = newAttempts,
                 !.locked_until = IF shouldLock
                                  THEN ToISOString(t + LOCKOUT_DURATION)
                                  ELSE NULL]

\* the error the login handler answers with: status 401, error.message
LoginError(r, message) == Response(r, 401, message, "")

\* a mismatch message that tells the password was the wrong part
MismatchError_Telling(newAttempts) ==
  IF newAttempts >= MAX_LOGIN_ATTEMPTS
  THEN "Too many failed attempts. Account locked for 15 minutes."
  ELSE "Invalid password"

\* the message of the error authenticate throws on a password mismatch
MismatchError(newAttempts) ==
  IF newAttempts >= MAX_LOGIN_ATTEMPTS
  THEN "Too many failed attempts. Account locked for 15 minutes."
  ELSE "Invalid credentials"

\* the handler of POST /login up to the first await of authenticate
LoginHandler(p, username, password) ==
  /\ pc[p] = "idle"
  /\ Len(admin_audit_log) < MaxAudit
  /\ LET r == Request("login", username, password, <<>>, NoToken, NoToken)
         trimmed == Trim(username)
         bodyUsername == Escape(trimmed)
         valid == Len(trimmed) >= MIN_USERNAME_LENGTH
                  /\ Len(password) >= MIN_PASSWORD_LENGTH
         name == Trim(ToLowerCase(bodyUsername))
         admin == AdminByUsername(name)
     IN IF ~valid
        THEN /\ resp' = Response(r, 400, "Validation failed", "")
             /\ UNCHANGED <<admins, admin_audit_log, pc, req, local>>
        ELSE IF admin = NoAdmin
        THEN /\ admin_audit_log' = LogAudit(admin_audit_log, 0, "login_failed",
                                            FALSE, <<"User not found">>)
             /\ pc' = [pc EXCEPT ![p] = "auth_delay"]
             /\ req' = [req EXCEPT ![p] = r]
             /\ resp' = NoResponse
             /\ UNCHANGED <<admins, local>>
        ELSE IF LockInForce(admin, now)
        THEN /\ admin_audit_log' = LogAudit(admin_audit_log, admin.id, "login_failed",
                                            FALSE, <<"Account locked">>)
             /\ resp' = [LoginError(r, "Account locked. Try again in ${minutesLeft} minutes.")
                           EXCEPT !.minutesLeft = MinutesLeft(admin, now)]
             /\ UNCHANGED <<admins, pc, req, local>>
        ELSE /\ admins' = IF admin.locked_until # NULL
                          THEN ResetAttempts(admins, admin.id)
                          ELSE admins
             /\ IF ~admin.is_active
                THEN /\ admin_audit_log' = LogAudit(admin_audit_log, admin.id,
                             "login_failed", FALSE, <<"Account disabled">>)
                     /\ resp' = LoginError(r, "Account is disabled")
                     /\ UNCHANGED <<pc, req, local>>
                ELSE /\ pc' = [pc EXCEPT ![p] = "auth_compare"]
                     /\ req' = [req EXCEPT ![p] = r]
                     /\ local' = [local EXCEPT ![p] = admin]
                     /\ resp' = NoResponse
                     /\ UNCHANGED admin_audit_log
  /\ UNCHANGED <<JWT_REFRESH_EXPIRES_IN, now, refresh_tokens, token_seq, issued>>

\* a resumption that writes the audit entry after the delay
AuthenticateAfterDelay_LogsAfter(p) ==
  /\ pc[p] = "auth_delay"
  /\ pc' = [pc EXCEPT ![p] = "idle"]
  /\ req' = [req EXCEPT ![p] = NoRequest]
  /\ resp' = LoginError(req[p], "Invalid credentials")
  /\ admin_audit_log' = LogAudit(admin_audit_log, 0, "login_failed", FALSE,
                                 <<"User not found">>)
  /\ UNCHANGED <<JWT_REFRESH_EXPIRES_IN, now, admins, refresh_tokens, token_seq,
                 issued, local>>

\* authenticate resumes after simulateDelay on the unknown-user path
AuthenticateAfterDelay(p) ==
  /\ pc[p] = "auth_delay"
  /\ pc' = [pc EXCEPT ![p] = "idle"]
  /\ req' = [req EXCEPT ![p] = NoRequest]
  /\ resp' = LoginError(req[p], "Invalid credentials")
  /\ UNCHANGED <<JWT_REFRESH_EXPIRES_IN, now, admins, refresh_tokens, token_seq, admin_audit_log,
                 issued, local>>

\* authenticate resumes after bcrypt.compare; on success the login handler
\* issues the token pair, stores the refresh token and answers
AuthenticateAfterCompare(p) ==
  /\ pc[p] = "auth_compare"
  /\ Len(admin_audit_log) < MaxAudit
  /\ LET admin == local[p]
         isValid == BcryptCompare(req[p].password, admin.password)
         newAttempts == admin.login_attempts + 1
         safeAdmin == WithoutPassword(admin)
         accessToken == GenerateAccessToken(safeAdmin, now)
         refreshToken == GenerateRefreshToken(safeAdmin, now)
         expiresAt == ToISOString(now + REFRESH_ROW_LIFETIME)
     IN IF ~isValid
        THEN /\ admins' = [admins EXCEPT ![admin.id] =
                             FailedAttemptRow(admins[admin.id], admin, now)]
             /\ admin_audit_log' = LogAudit(admin_audit_log, admin.id, "login_failed",
                   FALSE, <<"Invalid password (attempt ", newAttempts, MAX_LOGIN_ATTEMPTS>>)
             /\ resp' = LoginError(req[p], MismatchError(newAttempts))
             /\ UNCHANGED <<refresh_tokens, token_seq, issued>>
        ELSE /\ token_seq < MaxRows
             /\ admins' = [admins EXCEPT ![admin.id] = SuccessRow(admins[admin.id], now)]
             /\ admin_audit_log' = LogAudit(admin_audit_log, admin.id, "login_success",
                                            TRUE, <<>>)
             /\ refresh_tokens' = StoreRefreshToken(refresh_tokens, token_seq, admin.id,
                                                    Sha256(refreshToken), expiresAt)
             /\ token_seq' = token_seq + 1
             /\ issued' = issued \cup {accessToken, refreshToken}
             /\ resp' = [Response(req[p], 200, "", "")
                           EXCEPT !.user = safeAdmin,
                                  !.accessToken = accessToken,
                                  !.refreshToken = refreshToken]
  /\ pc' = [pc EXCEPT ![p] = "idle"]
  /\ req' = [req EXCEPT ![p] = NoRequest]
  /\ local' = [local EXCEPT ![p] = NoAdmin]
  /\ UNCHANGED <<JWT_REFRESH_EXPIRES_IN, now>>

(***************************************************************************)
(* loginRateLimiter (express-rate-limit, skipSuccessfulRequests) in front  *)
(* of POST /api/auth/login                                                 *)
(***************************************************************************)
\* store.increment(key): a key whose window is over starts a new one
Increment(lim, a, t) ==
  IF lim.resetTime[a] <= t
  THEN [lim EXCEPT !.hits[a] = 1, !.resetTime[a] = t + LOGIN_RATE_WINDOW]
  ELSE [lim EXCEPT !.hits[a] = @ + 1]

\* store.decrement(key)
Decrement(lim, a) == [lim EXCEPT !.hits[a] = IF @ > 0 THEN @ - 1 ELSE 0]

\* a limiter that takes a hit back whatever the response was
Finish_SkipsAll(lim, p, status) ==
  IF lim.key[p] # 0
  THEN Decrement([lim EXCEPT !.key[p] = 0], lim.key[p])
  ELSE lim

\* response.on('finish'): with skipSuccessfulRequests the hit of a request
\* answered with a status below 400 is taken back
Finish(lim, p, status) ==
  IF lim.key[p] # 0 /\ status < 400
  THEN Decrement([lim EXCEPT !.key[p] = 0], lim.key[p])
  ELSE [lim EXCEPT !.key[p] = 0]

\* the answer of the limiter to a request over the limit
RateLimited(r) ==
  Response(r, 429, "Too many login attempts. Please try again in 15 minutes.",
           "RATE_LIMIT_EXCEEDED")

\* POST /login from address a: the limiter counts the request and either
\* answers it or lets the handler run up to the first await of authenticate
LimitedLogin(p, a, username, password) ==
  LET counted == Increment(loginLimiter, a, now)
  IN /\ counted.hits[a] <= MaxHits
     /\ UNCHANGED client
     /\ IF counted.hits[a] > LOGIN_RATE_MAX
        THEN /\ resp' = RateLimited(Request("login", username, password, <<>>,
                                            NoToken, NoToken))
             /\ loginLimiter' = counted
             /\ UNCHANGED <<JWT_REFRESH_EXPIRES_IN, now, admins, refresh_tokens,
                            token_seq, admin_audit_log, issued, pc, req, local>>
        ELSE /\ LoginHandler(p, username, password)
             /\ loginLimiter' = IF pc'[p] # "idle"
                                THEN [counted EXCEPT !.key[p] = a]
                                ELSE counted

\* POST /login from an address outside Addrs, whose count the limiter lets
\* pass
PostLogin(p, username, password) ==
  LoginHandler(p, username, password) /\ UNCHANGED <<client, loginLimiter>>

\* the request of process p is answered after the delay
LoginAfterDelay(p) ==
  /\ AuthenticateAfterDelay(p)
  /\ loginLimiter' = Finish(loginLimiter, p, resp'.status)
  /\ UNCHANGED client

\* the request of process p is answered after the comparison
LoginAfterCompare(p) ==
  /\ AuthenticateAfterCompare(p)
  /\ loginLimiter' = Finish(loginLimiter, p, resp'.status)
  /\ UNCHANGED client

(***************************************************************************)
(* middleware/auth.js: the Request Gate                                    *)
(***************************************************************************)
\* const token = headerToken || cookieToken
ExtractToken(headerToken, cookieToken) ==
  IF headerToken # NoToken THEN headerToken ELSE cookieToken

\* a gate that answers every failed verification alike
AuthenticateToken_OneRejection(r, t) ==
  IF r.token = NoToken
  THEN Response(r, 401, "Access denied. No token provided.", "NO_TOKEN")
  ELSE IF JwtVerify(r.token, t) # "ok"
  THEN Response(r, 403, "Invalid token.", "INVALID_TOKEN")
  ELSE Response(r, 0, "", "")

\* a gate that also looks the token's admin up and wants an active row
AuthenticateToken_ChecksAdmin(r, t) ==
  IF r.token = NoToken
  THEN Response(r, 401, "Access denied. No token provided.", "NO_TOKEN")
  ELSE IF JwtVerify(r.token, t) = "TokenExpiredError"
  THEN Response(r, 401, "Token expired. Please login again.", "TOKEN_EXPIRED")
  ELSE IF JwtVerify(r.token, t) # "ok" \/ ~AdminById(r.token.id).is_active
  THEN Response(r, 403, "Invalid token.", "INVALID_TOKEN")
  ELSE Response(r, 0, "", "")

\* a second gate that lets every authenticated request through
RequireAdmin_AllowsAll(r) == Response(r, 0, "", "")

\* authenticateToken: the response it sends, or status 0 when it calls next()
\* with req.user = the decoded payload
AuthenticateToken(r, t) ==
  IF r.token = NoToken
  THEN Response(r, 401, "Access denied. No token provided.", "NO_TOKEN")
  ELSE IF JwtVerify(r.token, t) = "TokenExpiredError"
  THEN Response(r, 401, "Token expired. Please login again.", "TOKEN_EXPIRED")
  ELSE IF JwtVerify(r.token, t) # "ok"
  THEN Response(r, 403, "Invalid token.", "INVALID_TOKEN")
  ELSE Response(r, 0, "", "")

\* requireAdmin, after authenticateToken passed (req.user is the payload of
\* the presented token; a request without one has no req.user)
RequireAdmin(r) ==
  IF r.token = NoToken
  THEN Response(r, 401, "Authentication required", "")
  ELSE IF r.token.role # "admin"
  THEN Response(r, 403, "Admin access required", "INSUFFICIENT_PERMISSIONS")
  ELSE Response(r, 0, "", "")

\* verifyRefreshToken of the middleware: TRUE when it returns the decoded
\* payload, FALSE when it throws (it never returns a falsy value)
VerifyRefreshTokenReturns(token, t) ==
  JwtVerify(token, t) = "ok" /\ token.type = "refresh"

(***************************************************************************)
(* AdminService: the Token Store                                           *)
(***************************************************************************)
\* a lookup that tests the revoked flag the wrong way round
VerifyRefreshToken_InvertedFlag(rows, tokenHash, t) ==
  {row \in rows : /\ row.token_hash = tokenHash
                  /\ row.revoked
                  /\ TextLess(CURRENT_TIMESTAMP(t), row.expires_at)}

\* AdminService.verifyRefreshToken: the rows the SELECT matches
\*   WHERE token_hash = ? AND revoked = 0 AND expires_at > CURRENT_TIMESTAMP
VerifyRefreshToken(rows, tokenHash, t) ==
  {row \in rows : /\ row.token_hash = tokenHash
                  /\ ~row.revoked
                  /\ TextLess(CURRENT_TIMESTAMP(t), row.expires_at)}

\* an UPDATE that inverts the flag of the matching rows
RevokeRefreshToken_Flips(rows, tokenHash) ==
  {IF row.token_hash = tokenHash THEN [row EXCEPT !.revoked = ~@] ELSE row
     : row \in rows}

\* a revocation without its WHERE clause
RevokeRefreshToken_EveryRow(rows, tokenHash) ==
  {[row EXCEPT !.revoked = TRUE] : row \in rows}

\* AdminService.revokeRefreshToken
RevokeRefreshToken(rows, tokenHash) ==
  {IF row.token_hash = tokenHash THEN [row EXCEPT !.revoked = TRUE] ELSE row
     : row \in rows}

\* AdminService.revokeAllRefreshTokens
RevokeAllRefreshTokens(rows, adminId) ==
  {IF row.admin_id = adminId THEN [row EXCEPT !.revoked = TRUE] ELSE row
     : row \in rows}

\* a DELETE with the comparison the wrong way round
CleanupExpiredTokens_KeepsExpired(rows, t) ==
  {row \in rows : TextLess(row.expires_at, CURRENT_TIMESTAMP(t))}

\* AdminService.cleanupExpiredTokens: the rows the DELETE leaves
\*   DELETE FROM refresh_tokens WHERE expires_at < CURRENT_TIMESTAMP
CleanupExpiredTokens(rows, t) ==
  {row \in rows : ~TextLess(row.expires_at, CURRENT_TIMESTAMP(t))}

\* AdminService.getAdminById (the SELECT leaves the password out)
GetAdminById(id) == WithoutPassword(AdminById(id))

(***************************************************************************)
(* POST /api/auth/refresh                                                  *)
(***************************************************************************)
PostRefresh(refreshToken) ==
  LET r == Request("refresh", <<>>, <<>>, <<>>, NoToken, refreshToken)
      tokenHash == Sha256(refreshToken)
      admin == GetAdminById(refreshToken.id)
      newAccessToken == GenerateAccessToken(admin, now)
  IN /\ IF refreshToken = NoToken
        THEN /\ resp' = Response(r, 401, "Refresh token required", "NO_REFRESH_TOKEN")
             /\ UNCHANGED issued
        ELSE IF ~VerifyRefreshTokenReturns(refreshToken, now)
        THEN /\ resp' = Response(r, 500, "Failed to refresh token", "")
             /\ UNCHANGED issued
        ELSE IF VerifyRefreshToken(refresh_tokens, tokenHash, now) = {}
        THEN /\ resp' = Response(r, 403, "Refresh token expired or revoked",
                                 "TOKEN_REVOKED")
             /\ UNCHANGED issued
        ELSE IF admin = NoUser \/ ~admin.is_active
        THEN /\ resp' = Response(r, 403, "Account not found or disabled",
                                 "ACCOUNT_DISABLED")
             /\ UNCHANGED issued
        ELSE /\ Cardinality(issued \cup {newAccessToken}) <= MaxIssued
             /\ resp' = [Response(r, 200, "", "") EXCEPT !.accessToken = newAccessToken]
             /\ issued' = issued \cup {newAccessToken}
     /\ UNCHANGED <<client, loginLimiter, JWT_REFRESH_EXPIRES_IN, now, admins, refresh_tokens, token_seq, admin_audit_log,
                    pc, req, local>>

(***************************************************************************)
(* POST /api/auth/logout and /logout-all                                   *)
(***************************************************************************)
PostLogout(token, refreshToken) ==
  LET r == Request("logout", <<>>, <<>>, <<>>, token, refreshToken)
      gate == AuthenticateToken(r, now)
  IN /\ Len(admin_audit_log) < MaxAudit
     /\ IF gate.status # 0
        THEN /\ resp' = gate
             /\ UNCHANGED <<refresh_tokens, admin_audit_log>>
        ELSE /\ refresh_tokens' = IF refreshToken # NoToken
                                  THEN RevokeRefreshToken(refresh_tokens,
                                                          Sha256(refreshToken))
                                  ELSE refresh_tokens
             /\ admin_audit_log' = LogAudit(admin_audit_log, token.id, "logout",
                                            TRUE, <<>>)
             /\ resp' = Response(r, 200, "", "")
     /\ UNCHANGED <<client, loginLimiter, JWT_REFRESH_EXPIRES_IN, now, admins, token_seq, issued, pc, req, local>>

PostLogoutAll(token) ==
  LET r == Request("logout-all", <<>>, <<>>, <<>>, token, NoToken)
      gate == AuthenticateToken(r, now)
  IN /\ Len(admin_audit_log) < MaxAudit
     /\ IF gate.status # 0
        THEN /\ resp' = gate
             /\ UNCHANGED <<refresh_tokens, admin_audit_log>>
        ELSE /\ refresh_tokens' = RevokeAllRefreshTokens(refresh_tokens, token.id)
             /\ admin_audit_log' = LogAudit(admin_audit_log, token.id,
                                            "logout_all_devices", TRUE, <<>>)
             /\ resp' = Response(r, 200, "", "")
     /\ UNCHANGED <<client, loginLimiter, JWT_REFRESH_EXPIRES_IN, now, admins, token_seq, issued, pc, req, local>>

(***************************************************************************)
(* POST /api/auth/change-password and AdminService.changePassword          *)
(***************************************************************************)
\* the request up to the first await (bcrypt.compare) of changePassword
PostChangePassword(p, token, oldPassword, newPassword) ==
  LET r == Request("change-password", <<>>, oldPassword, newPassword, token, NoToken)
      gate == AuthenticateToken(r, now)
      valid == /\ oldPassword # <<>>
               /\ Len(newPassword) >= MIN_PASSWORD_LENGTH
               /\ MatchesComplexity(newPassword)
      admin == AdminById(token.id)
  IN /\ pc[p] = "idle"
     /\ IF gate.status # 0
        THEN /\ resp' = gate
             /\ UNCHANGED <<pc, req, local>>
        ELSE IF ~valid
        THEN /\ resp' = Response(r, 400, "Validation failed", "")
             /\ UNCHANGED <<pc, req, local>>
        ELSE IF Len(newPassword) < MIN_PASSWORD_LENGTH
        THEN /\ resp' = Response(r, 400, "New password must be at least 8 characters", "")
             /\ UNCHANGED <<pc, req, local>>
        ELSE IF admin = NoAdmin
        THEN /\ resp' = Response(r, 400, "Admin not found", "")
             /\ UNCHANGED <<pc, req, local>>
        ELSE /\ pc' = [pc EXCEPT ![p] = "cp_compare"]
             /\ req' = [req EXCEPT ![p] = r]
             /\ local' = [local EXCEPT ![p] = [NoAdmin EXCEPT !.password = admin.password]]
             /\ resp' = NoResponse
     /\ UNCHANGED <<client, loginLimiter, JWT_REFRESH_EXPIRES_IN, now, admins, refresh_tokens, token_seq, admin_audit_log, issued>>

\* AdminService.changePassword(adminId, oldPassword, newPassword) called
\* directly, up to its first await; the request record carries the adminId
\* argument where the route carries req.user.id, and an error thrown is
\* shown with the status the route's catch gives it
ChangePassword(p, adminId, oldPassword, newPassword) ==
  LET r == Request("changePassword", <<>>, oldPassword, newPassword,
                   [NoToken EXCEPT !.id = adminId], NoToken)
      admin == AdminById(adminId)
  IN /\ pc[p] = "idle"
     /\ IF Len(newPassword) < MIN_PASSWORD_LENGTH
        THEN /\ resp' = Response(r, 400, "New password must be at least 8 characters", "")
             /\ UNCHANGED <<pc, req, local>>
        ELSE IF admin = NoAdmin
        THEN /\ resp' = Response(r, 400, "Admin not found", "")
             /\ UNCHANGED <<pc, req, local>>
        ELSE /\ pc' = [pc EXCEPT ![p] = "cp_compare"]
             /\ req' = [req EXCEPT ![p] = r]
             /\ local' = [local EXCEPT ![p] = [NoAdmin EXCEPT !.password = admin.password]]
             /\ resp' = NoResponse
     /\ UNCHANGED <<client, loginLimiter, JWT_REFRESH_EXPIRES_IN, now, admins, refresh_tokens, token_seq,
                    admin_audit_log, issued>>

\* changePassword resumes after bcrypt.compare
ChangePasswordAfterCompare(p) ==
  /\ pc[p] = "cp_compare"
  /\ Len(admin_audit_log) < MaxAudit
  /\ IF ~BcryptCompare(req[p].password, local[p].password)
     THEN /\ admin_audit_log' = LogAudit(admin_audit_log, req[p].token.id,
                "password_change_failed", FALSE, <<"Invalid old password">>)
          /\ resp' = Response(req[p], 400, "Invalid old password", "")
          /\ pc' = [pc EXCEPT ![p] = "idle"]
          /\ req' = [req EXCEPT ![p] = NoRequest]
          /\ local' = [local EXCEPT ![p] = NoAdmin]
     ELSE /\ pc' = [pc EXCEPT ![p] = "cp_hash"]
          /\ resp' = NoResponse
          /\ UNCHANGED <<admin_audit_log, req, local>>
  /\ UNCHANGED <<client, loginLimiter, JWT_REFRESH_EXPIRES_IN, now, admins, refresh_tokens, token_seq, issued>>

\* changePassword resumes after bcrypt.hash: stores the hash, revokes the
\* admin's refresh tokens, logs, and the handler answers
ChangePasswordAfterHash(p) ==
  /\ pc[p] = "cp_hash"
  /\ Len(admin_audit_log) < MaxAudit
  /\ LET adminId == req[p].token.id
     IN /\ admins' = [admins EXCEPT ![adminId].password = BcryptHash(req[p].newPassword)]
        /\ refresh_tokens' = RevokeAllRefreshTokens(refresh_tokens, adminId)
        /\ admin_audit_log' = LogAudit(admin_audit_log, adminId, "password_changed",
                                       TRUE, <<>>)
  /\ resp' = [Response(req[p], 200, "", "")
                EXCEPT !.error = "Password changed successfully. Please login again."]
  /\ pc' = [pc EXCEPT ![p] = "idle"]
  /\ req' = [req EXCEPT ![p] = NoRequest]
  /\ local' = [local EXCEPT ![p] = NoAdmin]
  /\ UNCHANGED <<client, loginLimiter, JWT_REFRESH_EXPIRES_IN, now, token_seq, issued>>

(***************************************************************************)
(* POST /api/auth/create-admin and AdminService.createAdmin                *)
(***************************************************************************)
PostCreateAdmin(token, username, password) ==
  LET r == Request("create-admin", username, password, <<>>, token, NoToken)
      gate == AuthenticateToken(r, now)
      trimmed == Trim(username)
      bodyUsername == Escape(trimmed)
      valid == /\ Len(trimmed) >= MIN_USERNAME_LENGTH
               /\ Len(password) >= MIN_PASSWORD_LENGTH
               /\ MatchesComplexity(password)
      name == Trim(ToLowerCase(bodyUsername))
  IN /\ Len(admin_audit_log) < MaxAudit
     /\ Len(admins) < MaxAdmins
     /\ IF gate.status # 0
        THEN /\ resp' = gate
             /\ UNCHANGED <<admins, admin_audit_log>>
        ELSE IF RequireAdmin(r).status # 0
        THEN /\ resp' = RequireAdmin(r)
             /\ UNCHANGED <<admins, admin_audit_log>>
        ELSE IF ~valid
        THEN /\ resp' = Response(r, 400, "Validation failed", "")
             /\ UNCHANGED <<admins, admin_audit_log>>
        ELSE IF Len(name) < MIN_USERNAME_LENGTH
        THEN /\ resp' = Response(r, 400, "Username must be at least 3 characters", "")
             /\ UNCHANGED <<admins, admin_audit_log>>
        ELSE IF Len(password) < MIN_PASSWORD_LENGTH
        THEN /\ resp' = Response(r, 400, "Password must be at least 8 characters", "")
             /\ UNCHANGED <<admins, admin_audit_log>>
        ELSE IF AdminByUsername(name) # NoAdmin
        THEN /\ resp' = Response(r, 400, "Username already exists", "")
             /\ UNCHANGED <<admins, admin_audit_log>>
        ELSE /\ admins' = Append(admins,
                            AdminRow(Len(admins) + 1, name, BcryptHash(password)))
             /\ admin_audit_log' = LogAudit(admin_audit_log, token.id, "admin_created",
                                            TRUE, <<"Created admin: ", bodyUsername>>)
             /\ resp' = [Response(r, 201, "", "") EXCEPT !.user =
                           [NoUser EXCEPT !.id = Len(admins) + 1, !.username = name,
                                          !.role = "admin"]]
     /\ UNCHANGED <<client, loginLimiter, JWT_REFRESH_EXPIRES_IN, now, refresh_tokens, token_seq, issued, pc, req, local>>

\* AdminService.createAdmin(username, password) called directly (it has no
\* await); an error thrown is shown with the status the route's catch gives
\* it, the returned object with the status of the route's answer
CreateAdmin(username, password) ==
  LET r == Request("createAdmin", username, password, <<>>, NoToken, NoToken)
      name == Trim(ToLowerCase(username))
  IN /\ IF Len(name) < MIN_USERNAME_LENGTH
        THEN /\ resp' = Response(r, 400, "Username must be at least 3 characters", "")
             /\ UNCHANGED admins
        ELSE IF Len(password) < MIN_PASSWORD_LENGTH
        THEN /\ resp' = Response(r, 400, "Password must be at least 8 characters", "")
             /\ UNCHANGED admins
        ELSE IF AdminByUsername(name) # NoAdmin
        THEN /\ resp' = Response(r, 400, "Username already exists", "")
             /\ UNCHANGED admins
        ELSE /\ Len(admins) < MaxAdmins
             /\ admins' = Append(admins,
                            AdminRow(Len(admins) + 1, name, BcryptHash(password)))
             /\ resp' = [Response(r, 201, "", "") EXCEPT !.user =
                           [NoUser EXCEPT !.id = Len(admins) + 1, !.username = name,
                                          !.role = "admin"]]
     /\ UNCHANGED <<client, loginLimiter, JWT_REFRESH_EXPIRES_IN, now, refresh_tokens, token_seq,
                    admin_audit_log, issued, pc, req, local>>

\* AdminService.getAllAdmins() called directly: the rows without the
\* password column (their order is left out)
GetAllAdmins ==
  LET r == Request("getAllAdmins", <<>>, <<>>, <<>>, NoToken, NoToken)
  IN /\ resp' = [Response(r, 200, "", "") EXCEPT
                   !.users = {WithoutPassword(admins[i]) : i \in DOMAIN admins}]
     /\ UNCHANGED <<client, loginLimiter, JWT_REFRESH_EXPIRES_IN, now, admins, refresh_tokens,
                    token_seq, admin_audit_log, issued, pc, req, local>>

(***************************************************************************)
(* The read-only protected routes                                          *)
(***************************************************************************)
\* GET /api/auth/me, the token arriving in the Authorization header or in
\* the auth_token cookie
GetMe(headerToken, cookieToken) ==
  LET r == Request("me", <<>>, <<>>, <<>>, ExtractToken(headerToken, cookieToken),
                   NoToken)
      gate == AuthenticateToken(r, now)
      admin == GetAdminById(r.token.id)
  IN /\ resp' = IF gate.status # 0 THEN gate
                ELSE IF admin = NoUser THEN Response(r, 404, "User not found", "")
                ELSE [Response(r, 200, "", "") EXCEPT !.user = admin]
     /\ UNCHANGED <<client, loginLimiter, JWT_REFRESH_EXPIRES_IN, now, admins, refresh_tokens, token_seq,
                    admin_audit_log, issued, pc, req, local>>

\* a route of the shape (authenticateToken, requireAdmin, handler) whose
\* handler reads and answers 200
AdminRead(op, token) ==
  LET r == Request(op, <<>>, <<>>, <<>>, token, NoToken)
      gate == AuthenticateToken(r, now)
  IN /\ resp' = IF gate.status # 0 THEN gate
                ELSE IF RequireAdmin(r).status # 0 THEN RequireAdmin(r)
                ELSE Response(r, 200, "", "")
     /\ UNCHANGED <<client, loginLimiter, JWT_REFRESH_EXPIRES_IN, now, admins, refresh_tokens, token_seq,
                    admin_audit_log, issued, pc, req, local>>

\* GET /api/waitlist/all
GetWaitlistAll(token) == AdminRead("waitlist/all", token)

\* GET /api/waitlist/export (exportToCSV always returns the header line)
GetWaitlistExport(token) == AdminRead("waitlist/export", token)

\* GET /api/auth/audit-logs
GetAuditLogs(token) == AdminRead("audit-logs", token)

(***************************************************************************)
(* AdminService maintenance operations                                     *)
(***************************************************************************)
\* AdminService.deactivateAdmin
DeactivateAdmin(id) ==
  /\ id \in DOMAIN admins
  /\ admins' = [admins EXCEPT ![id].is_active = FALSE]
  /\ refresh_tokens' = RevokeAllRefreshTokens(refresh_tokens, id)
  /\ resp' = NoResponse
  /\ UNCHANGED <<client, loginLimiter, JWT_REFRESH_EXPIRES_IN, now, token_seq, admin_audit_log, issued, pc, req, local>>

\* AdminService.activateAdmin
ActivateAdmin(id) ==
  /\ id \in DOMAIN admins
  /\ admins' = [admins EXCEPT ![id].is_active = TRUE]
  /\ resp' = NoResponse
  /\ UNCHANGED <<client, loginLimiter, JWT_REFRESH_EXPIRES_IN, now, refresh_tokens, token_seq, admin_audit_log, issued,
                 pc, req, local>>

\* the periodic sweep
CleanupSweep ==
  /\ refresh_tokens' = CleanupExpiredTokens(refresh_tokens, now)
  /\ resp' = NoResponse
  /\ UNCHANGED <<client, loginLimiter, JWT_REFRESH_EXPIRES_IN, now, admins, token_seq, admin_audit_log, issued, pc, req,
                 local>>

(***************************************************************************)
(* The admin dashboard (admin/src/contexts/AuthContext.jsx and the api      *)
(* helper of admin/src/pages/Waitlist.jsx) in one browser.  Each async      *)
(* function is cut at its fetch: one action sends the request, the server   *)
(* answers it with its own actions, and the action that resumes the         *)
(* function reads the answer from resp (response.json() settles with it).   *)
(* A fetch can also be rejected by the network.                             *)
(***************************************************************************)
\* the cookie a fetch attaches: with credentials 'include' always, with the
\* default 'same-origin' only when the page is of the API's origin (the
\* cookies are SameSite=Strict and both hosts are one site)
SentCookie(credentials, cookie) ==
  IF credentials = "include" \/ (credentials = "same-origin" /\ ~client.crossOrigin)
  THEN cookie
  ELSE NoToken

\* the token of `Bearer ${token}`.split(' ')[1]: with a null token the text
\* "null", which does not verify
BearerHeader(token) == IF token = NoToken THEN ForgedToken ELSE token

\* response.ok
Ok(r) == r.status >= 200 /\ r.status <= 299

\* the frame of a step of the dashboard: the server is not touched
ClientStep ==
  /\ resp' = NoResponse
  /\ UNCHANGED <<loginLimiter, JWT_REFRESH_EXPIRES_IN, now, admins, refresh_tokens,
                 token_seq, admin_audit_log, issued, pc, req, local>>

\* checkAuth of the mount effect, up to its fetch of /auth/me
CheckAuth ==
  /\ client.checkAuth = "unmounted"
  /\ client' = IF client.storage = NoToken
               THEN [client EXCEPT !.loading = FALSE, !.checkAuth = "done"]
               ELSE [client EXCEPT !.checkAuth = "wait",
                                   !.storedToken = client.storage]
  /\ ClientStep

\* a checkAuth that is not ok or is rejected: the token is cleared
CheckAuthCleared ==
  [client EXCEPT !.storage = NoToken, !.token = NoToken, !.loading = FALSE,
                 !.checkAuth = "done"]

\* checkAuth resumes with the answer of GET /auth/me
CheckAuthAnswered ==
  /\ client.checkAuth = "wait"
  /\ resp.req.op = "me" /\ resp.req.token = client.storedToken /\ resp.status # 0
  /\ client' = IF Ok(resp)
               THEN [client EXCEPT !.user = resp.user, !.token = client.storedToken,
                                   !.loading = FALSE, !.checkAuth = "done"]
               ELSE CheckAuthCleared
  /\ ClientStep

\* the fetch of checkAuth is rejected
CheckAuthRejected ==
  /\ client.checkAuth = "wait"
  /\ client' = CheckAuthCleared
  /\ ClientStep

\* login(username, password) up to its fetch of /auth/login
Login ==
  /\ client.login = "idle"
  /\ client' = [client EXCEPT !.login = "wait"]
  /\ ClientStep

\* login resumes with the answer of POST /auth/login; the browser keeps the
\* cookies of the answer
LoginAnswered ==
  /\ client.login = "wait"
  /\ resp.req.op = "login" /\ resp.status # 0
  /\ client' = IF Ok(resp)
               THEN [client EXCEPT !.storage = resp.accessToken,
                                   !.token = resp.accessToken,
                                   !.user = resp.user,
                                   !.cookie = resp.accessToken,
                                   !.refreshCookie = resp.refreshToken,
                                   !.login = "idle"]
               ELSE [client EXCEPT !.login = "idle"]
  /\ ClientStep

\* the fetch of login is rejected
LoginRejected ==
  /\ client.login = "wait"
  /\ client' = [client EXCEPT !.login = "idle"]
  /\ ClientStep

\* logout() up to its fetch of /auth/logout
Logout ==
  /\ client.logout = "idle"
  /\ client.changePassword = "idle"
  /\ client' = [client EXCEPT !.logout = "wait", !.bearer = client.token]
  /\ ClientStep

\* a finally block that leaves localStorage alone
LogoutFinally_KeepsStorage(c) ==
  [c EXCEPT !.token = NoToken, !.user = NoUser, !.logout = "idle",
            !.changePassword = IF @ = "logout" THEN "idle" ELSE @]

\* the finally block of logout; a changePassword awaiting it returns
LogoutFinally(c) ==
  [c EXCEPT !.storage = NoToken, !.token = NoToken, !.user = NoUser,
            !.logout = "idle",
            !.changePassword = IF @ = "logout" THEN "idle" ELSE @]

\* logout resumes with the answer of POST /auth/logout, whatever it is; the
\* browser drops the cookies a handled logout clears
LogoutAnswered ==
  /\ client.logout = "wait"
  /\ resp.req.op = "logout" /\ resp.status # 0
  /\ client' = LogoutFinally(IF Ok(resp)
                             THEN [client EXCEPT !.cookie = NoToken,
                                                 !.refreshCookie = NoToken]
                             ELSE client)
  /\ ClientStep

\* the fetch of logout is rejected
LogoutRejected ==
  /\ client.logout = "wait"
  /\ client' = LogoutFinally(client)
  /\ ClientStep

\* changePassword(oldPassword, newPassword) up to its fetch
ChangePasswordCall ==
  /\ client.changePassword = "idle"
  /\ client.logout = "idle"
  /\ client' = [client EXCEPT !.changePassword = "wait", !.bearer = client.token]
  /\ ClientStep

\* changePassword resumes with the answer of POST /auth/change-password: it
\* throws, or calls logout() and awaits it
ChangePasswordAnswered ==
  /\ client.changePassword = "wait"
  /\ resp.req.op = "change-password" /\ resp.status # 0
  /\ client' = IF Ok(resp)
               THEN [client EXCEPT !.changePassword = "logout", !.logout = "wait",
                                   !.cookie = NoToken, !.refreshCookie = NoToken]
               ELSE [client EXCEPT !.changePassword = "idle"]
  /\ ClientStep

\* the fetch of changePassword is rejected
ChangePasswordRejected ==
  /\ client.changePassword = "wait"
  /\ client' = [client EXCEPT !.changePassword = "idle"]
  /\ ClientStep

\* api.getAllSignups() / api.exportToCSV() up to the fetch
ApiCall(op) ==
  /\ client.api = "idle"
  /\ client' = [client EXCEPT !.api = op, !.apiStatus = 0]
  /\ ClientStep

\* the api call resumes with the answer
ApiAnswered ==
  /\ client.api # "idle"
  /\ resp.req.op = client.api /\ resp.status # 0
  /\ client' = [client EXCEPT !.api = "idle", !.apiStatus = resp.status]
  /\ ClientStep

\* the requests of the dashboard as the server receives them
ServesCheckAuth ==
  /\ client.checkAuth = "wait"
  /\ GetMe(BearerHeader(client.storedToken), SentCookie("include", client.cookie))

ServesLogout ==
  /\ client.logout = "wait"
  /\ PostLogout(ExtractToken(BearerHeader(client.bearer),
                             SentCookie("include", client.cookie)),
                SentCookie("include", client.refreshCookie))

ServesApi ==
  /\ client.api # "idle"
  /\ AdminRead(client.api,
               ExtractToken(NoToken, SentCookie("same-origin", client.cookie)))

(***************************************************************************)
(* The requests of the model                                               *)
(***************************************************************************)
\* what a client can put where a token is expected
Presentable == issued \cup {NoToken, ForgedToken}

\* the access tokens and the refresh tokens clients hold
AccessTokens == {t \in issued : t.type # "refresh"}

RefreshTokens == {t \in issued : t.type = "refresh"}

\* the username/password pairs submitted to POST /login when the lockout
\* is exercised
LockoutLogins ==
  {<<U_admin, P_admin123>>, <<U_Admin_sp, P_wrong>>, <<U_nobody, P_wrong>>,
   <<U_admin, P_short>>}

\* the account-lockout machine: logins with right and wrong passwords,
\* overlapping at the awaits, time, and (de)activation
NextLockout ==
  \/ Tick
  \/ \E p \in Procs, i \in LockoutLogins : PostLogin(p, i[1], i[2])
  \/ \E p \in Procs : LoginAfterDelay(p)
  \/ \E p \in Procs : LoginAfterCompare(p)
  \/ DeactivateAdmin(1)
  \/ ActivateAdmin(1)

SpecLockout == InitLockout /\ [][NextLockout]_vars

\* the same machine with the timer of simulateDelay (setTimeout) firing:
\* a call suspended on the delay is resumed
SpecDelay ==
  InitLockout /\ [][NextLockout]_vars /\ \A p \in Procs : WF_vars(LoginAfterDelay(p))

\* the two login defences together: logins from the counted addresses and
\* from elsewhere, overlapping at the awaits, and time
NextRate ==
  \/ Tick
  \/ \E p \in Procs, a \in Addrs, i \in LockoutLogins : LimitedLogin(p, a, i[1], i[2])
  \/ \E p \in Procs : PostLogin(p, U_admin, P_wrong)
  \/ \E p \in Procs : LoginAfterDelay(p)
  \/ \E p \in Procs : LoginAfterCompare(p)

SpecRate == InitLockout /\ [][NextRate]_vars

\* the username/password pairs submitted to POST /login when the token
\* life cycle is exercised
TokenLogins == {<<U_admin, P_admin123>>, <<U_bob, P_bob>>, <<U_admin, P_new>>}

\* the old/new password pairs submitted to POST /change-password
ChangeInputs == {<<P_admin123, P_new>>, <<P_wrong, P_new>>}

\* the username/password pairs submitted to POST /create-admin: a new
\* username, and one whose normalised form is taken
CreateInputs == {<<U_bob, P_bob>>, <<U_Admin_sp, P_bob>>}

\* the token life cycle: logins, refreshes, logouts, password changes,
\* (de)activation, the sweep and time
NextTokens ==
  \/ Tick
  \/ \E i \in TokenLogins : PostLogin(1, i[1], i[2])
  \/ LoginAfterCompare(1)
  \/ \E t \in Presentable : PostRefresh(t)
  \/ \E t \in AccessTokens, rt \in RefreshTokens \cup {NoToken} : PostLogout(t, rt)
  \/ \E t \in AccessTokens : PostLogoutAll(t)
  \/ \E t \in AccessTokens, i \in ChangeInputs : PostChangePassword(1, t, i[1], i[2])
  \/ ChangePasswordAfterCompare(1)
  \/ ChangePasswordAfterHash(1)
  \/ DeactivateAdmin(1)
  \/ ActivateAdmin(1)
  \/ CleanupSweep
  \/ \E t \in AccessTokens, i \in CreateInputs : PostCreateAdmin(t, i[1], i[2])

SpecTokens == Init /\ [][NextTokens]_vars

\* the time of a login made more than the life of a refresh token row
\* before the start
OldLogin == 0 - (REFRESH_ROW_LIFETIME + 1)

\* a start over a Token Store that holds the row of that login, the client
\* still holding its refresh token
InitSweep ==
  \E e \in RefreshConfigs :
     Start(e, <<DefaultAdmin, SuccessRow(SecondAdmin, OldLogin)>>,
         StoreRefreshToken({}, 0, 2,
           Sha256(GenerateRefreshToken(WithoutPassword(SecondAdmin), OldLogin)),
           ToISOString(OldLogin + REFRESH_ROW_LIFETIME)),
         {GenerateRefreshToken(WithoutPassword(SecondAdmin), OldLogin)})

\* the sweep between logins, refreshes, logouts and time
NextSweep ==
  \/ Tick
  \/ \E i \in TokenLogins : PostLogin(1, i[1], i[2])
  \/ LoginAfterCompare(1)
  \/ \E t \in Presentable : PostRefresh(t)
  \/ \E t \in AccessTokens, rt \in RefreshTokens : PostLogout(t, rt)
  \/ CleanupSweep

SpecSweep == InitSweep /\ [][NextSweep]_vars

\* the arguments of direct calls of AdminService.changePassword: a stored
\* and an unknown adminId; a right and a wrong old password; a new password
\* of the required length and one below it
ServiceChangeIds == {1, MaxAdmins + 1}

ServiceChangeInputs ==
  {<<P_admin123, P_new>>, <<P_wrong, P_new>>, <<P_admin123, P_short>>}

\* the bodies submitted to POST /change-password: as above, and one without
\* an old password
RouteChangeInputs == ServiceChangeInputs \cup {<<<<>>, P_new>>}

\* a start with the default refresh token life
InitChange == Init /\ JWT_REFRESH_EXPIRES_IN = RefreshTicks

\* password changes, through the route and by direct calls of the service,
\* overlapping at the awaits, with the logins that obtain and use the tokens
NextChange ==
  \/ \E i \in TokenLogins : PostLogin(1, i[1], i[2])
  \/ LoginAfterCompare(1)
  \/ \E p \in Procs, t \in Presentable, i \in RouteChangeInputs :
        PostChangePassword(p, t, i[1], i[2])
  \/ \E p \in Procs, id \in ServiceChangeIds, i \in ServiceChangeInputs :
        ChangePassword(p, id, i[1], i[2])
  \/ \E p \in Procs : ChangePasswordAfterCompare(p)
  \/ \E p \in Procs : ChangePasswordAfterHash(p)

SpecChange == InitChange /\ [][NextChange]_vars

(***************************************************************************)
(* Properties of the login path (SpecLockout)                              *)
(***************************************************************************)
\* the error kinds of the login response
IsAccountLocked(r) ==
  /\ r.status = 401
  /\ r.error \in {"Account locked. Try again in ${minutesLeft} minutes.",
                  "Too many failed attempts. Account locked for 15 minutes."}

IsInvalidCredentials(r) ==
  /\ r.status = 401 /\ r.error = "Invalid credentials" /\ r.code = ""
  /\ r.minutesLeft = 0 /\ r.user = NoUser
  /\ r.accessToken = NoToken /\ r.refreshToken = NoToken

\* the username authenticate looks up for a submitted one
LookupName(username) == Trim(ToLowerCase(Escape(Trim(username))))

\* the submitted credentials pass the route's validation
Validated(username, password) ==
  /\ Len(Trim(username)) >= MIN_USERNAME_LENGTH
  /\ Len(password) >= MIN_PASSWORD_LENGTH

\* the stored rows a submitted username names
Targets(username) ==
  {k \in DOMAIN admins : admins[k].username = LookupName(username)}

\* process p resumes after bcrypt.compare with a password that does not match
WrongPassword(p) ==
  /\ pc[p] = "auth_compare"
  /\ ~BcryptCompare(req[p].password, local[p].password)

\* C1: while an admin row's lock has not expired (now < lockedUntil), every
\* login started for that admin is answered at once with the AccountLocked
\* error, whatever the password, and leaves the row as it was.
C1_LockedUntilExpiry ==
  [][\A p \in Procs, i \in LockoutLogins :
       ( /\ PostLogin(p, i[1], i[2])
         /\ Validated(i[1], i[2])
         /\ \E k \in Targets(i[1]) :
               /\ admins[k].locked_until # NULL
               /\ now < ParseDate(admins[k].locked_until) )
       => ( /\ IsAccountLocked(resp')
            /\ resp'.req.username = i[1]
            /\ resp'.req.password = i[2]
            /\ admins' = admins
            /\ pc' = pc )]_vars

\* C1 witness: the correct password was refused because the row is locked
C1_Witness ==
  /\ resp.req.op = "login"
  /\ resp.error = "Account locked. Try again in ${minutesLeft} minutes."
  /\ \E k \in Targets(resp.req.username) :
        /\ BcryptCompare(resp.req.password, admins[k].password)
        /\ admins[k].locked_until # NULL
        /\ now < ParseDate(admins[k].locked_until)

\* C2: starting from a count of 0, when N < 5 wrong-password logins for one
\* admin have completed (overlapping or not) and nothing else was logged, the
\* stored count of failed attempts is exactly N.
C2_NoLostIncrement ==
  ( /\ \A p \in Procs : pc[p] = "idle"
    /\ Len(admin_audit_log) >= 1
    /\ Len(admin_audit_log) < MAX_LOGIN_ATTEMPTS
    /\ \A n \in DOMAIN admin_audit_log :
          /\ admin_audit_log[n].admin_id = 1
          /\ admin_audit_log[n].action = "login_failed"
          /\ Len(admin_audit_log[n].details) = 3
    /\ admin_audit_log[1].details[2] = 1 )
  => admins[1].login_attempts = Len(admin_audit_log)

\* C3: the first login that reads an expired lock and supplies a wrong
\* password, with no other write to the row in between, leaves the count at
\* 1 and no lock, and fails with InvalidCredentials.
C3_FirstFailureAfterExpiry ==
  [][\A p \in Procs :
       ( /\ LoginAfterCompare(p)
         /\ WrongPassword(p)
         /\ local[p].locked_until # NULL
         /\ admins[local[p].id] = [local[p] EXCEPT !.login_attempts = 0,
                                                 !.locked_until = NULL] )
       => ( /\ admins'[local[p].id].login_attempts = 1
            /\ admins'[local[p].id].locked_until = NULL
            /\ IsInvalidCredentials(resp') )]_vars

\* C4: wrong-password logins executed one after another (the row is not
\* written between a login's read and its write): the k-th, k = 1..4, fails
\* with InvalidCredentials and leaves the count at k and no lock; the 5th
\* fails with AccountLocked and sets lockedUntil to now + 15 minutes.
C4_SequentialCounting ==
  [][\A p \in Procs :
       ( /\ LoginAfterCompare(p)
         /\ WrongPassword(p)
         /\ local[p] = admins[local[p].id]
         /\ local[p].login_attempts < MAX_LOGIN_ATTEMPTS )
       => LET k == admins[local[p].id].login_attempts + 1
              after == admins'[local[p].id]
          IN /\ after.login_attempts = k
             /\ k < MAX_LOGIN_ATTEMPTS =>
                  after.locked_until = NULL /\ IsInvalidCredentials(resp')
             /\ k = MAX_LOGIN_ATTEMPTS =>
                  /\ IsAccountLocked(resp')
                  /\ after.locked_until # NULL
                  /\ ParseDate(after.locked_until) = now + LockTicks]_vars

\* C4 witness: the 5th failure has just locked the row for 15 minutes
C4_Witness ==
  /\ resp.req.op = "login"
  /\ resp.error = "Too many failed attempts. Account locked for 15 minutes."
  /\ admins[1].login_attempts = MAX_LOGIN_ATTEMPTS
  /\ admins[1].locked_until # NULL
  /\ ParseDate(admins[1].locked_until) = now + LockTicks

\* C5: right after a login succeeds, the admin's stored count of failed
\* attempts is 0 and its lockedUntil is null.
C5_SuccessResets ==
  (resp.req.op = "login" /\ resp.status = 200)
  => /\ admins[resp.user.id].login_attempts = 0
     /\ admins[resp.user.id].locked_until = NULL

\* C5 witness: a login succeeded on a row that had failed attempts counted
C5_Witness ==
  /\ resp.req.op = "login"
  /\ resp.status = 200
  /\ resp.user.login_attempts > 0
  /\ admins[resp.user.id].login_attempts = 0

RowsOf(token) == {row \in refresh_tokens : row.token_hash = Sha256(token)}

\* the last response answers a refresh request that presented a signed
\* refresh token
RefreshAnswered ==
  /\ resp.req.op = "refresh"
  /\ resp.req.refreshToken.signed
  /\ resp.req.refreshToken.type = "refresh"

\* C7: after changePassword has succeeded for an admin (the last audit entry
\* is that admin's password_changed, so every refresh token issued to the
\* admin was stored before the change), a refresh with any of that admin's
\* refresh tokens fails with TokenRevoked.
C7_ChangePasswordRevokes ==
  ( /\ RefreshAnswered
    /\ resp.req.refreshToken \in issued
    /\ Len(admin_audit_log) >= 1
    /\ admin_audit_log[Len(admin_audit_log)].action = "password_changed"
    /\ admin_audit_log[Len(admin_audit_log)].admin_id = resp.req.refreshToken.id )
  => (resp.status = 403 /\ resp.code = "TOKEN_REVOKED")

\* C8: a refresh with a token for which a revoked row is stored fails with
\* TokenRevoked, whatever has happened since the revocation.
C8_RevocationPermanent ==
  (RefreshAnswered /\ \E row \in RowsOf(resp.req.refreshToken) : row.revoked)
  => (resp.status = 403 /\ resp.code = "TOKEN_REVOKED")

\* C9: a refresh request succeeds and issues an access token if and only if
\* a row is stored for the presented token with revoked = false and
\* expiresAt in the future, and the admin owning it exists and is active.
C9_RefreshValidity ==
  resp.req.op = "refresh"
  => ( (resp.status = 200 /\ resp.accessToken # NoToken)
       <=> \E row \in RowsOf(resp.req.refreshToken) :
              /\ ~row.revoked
              /\ ParseDate(row.expires_at) > now
              /\ row.admin_id \in DOMAIN admins
              /\ admins[row.admin_id].is_active )

\* C10: a refresh with a correctly signed refresh token fails with
\* TokenRevoked when no row is stored for it or every stored row is revoked
\* or expired, and with AccountDisabled when a valid row is stored and the
\* owning admin is inactive; neither issues an access token.
C10_RefreshFailureKinds ==
  RefreshAnswered
  => LET valid == {row \in RowsOf(resp.req.refreshToken) :
                     ~row.revoked /\ ParseDate(row.expires_at) > now}
     IN /\ valid = {} =>
             /\ resp.status = 403 /\ resp.code = "TOKEN_REVOKED"
             /\ resp.accessToken = NoToken
        /\ (\E row \in valid : ~admins[row.admin_id].is_active) =>
             /\ resp.status = 403 /\ resp.code = "ACCOUNT_DISABLED"
             /\ resp.accessToken = NoToken

\* C11: a refresh request whose token fails signature verification or does
\* not carry type = "refresh" is answered 403 INVALID_REFRESH_TOKEN.
C11_InvalidRefreshTokenCode ==
  ( /\ resp.req.op = "refresh"
    /\ resp.req.refreshToken # NoToken
    /\ ~resp.req.refreshToken.signed \/ resp.req.refreshToken.type # "refresh" )
  => (resp.status = 403 /\ resp.code = "INVALID_REFRESH_TOKEN")

\* a row is stored for the token that is unrevoked and unexpired, and the
\* admin owning it is active
StillValid(token) ==
  \E row \in RowsOf(token) :
     /\ ~row.revoked
     /\ ParseDate(row.expires_at) > now
     /\ row.admin_id \in DOMAIN admins
     /\ admins[row.admin_id].is_active

C13_LogoutAllRevokes ==
  ( /\ RefreshAnswered
    /\ resp.req.refreshToken \in issued
    /\ Len(admin_audit_log) >= 1
    /\ admin_audit_log[Len(admin_audit_log)].action = "logout_all_devices"
    /\ admin_audit_log[Len(admin_audit_log)].admin_id = resp.req.refreshToken.id )
  => ( /\ \A row \in refresh_tokens :
             row.admin_id = resp.req.refreshToken.id => row.revoked
       /\ resp.status = 403
       /\ resp.code = "TOKEN_REVOKED" )

(***************************************************************************)
(* Properties of the audit log                                             *)
(***************************************************************************)
\* the step appends exactly one entry to the audit log
AppendsOne ==
  /\ Len(admin_audit_log') = Len(admin_audit_log) + 1
  /\ SubSeq(admin_audit_log', 1, Len(admin_audit_log)) = admin_audit_log

\* the entry the step appended
Appended == admin_audit_log'[Len(admin_audit_log')]

\* C14: every authenticate call appends exactly one audit entry, on every
\* branch: a call that fails before its first await (locked, disabled) or
\* suspends on the unknown-user delay appends it at once and nothing later;
\* a call that suspends at the password comparison appends it when it
\* resumes.  The entry's success flag is true iff the call succeeded and its
\* admin_id is null (0) iff the username was not found.
C14_OneAuditEntryPerAuthenticate ==
  [][/\ \A p \in Procs, i \in LockoutLogins :
          (PostLogin(p, i[1], i[2]) /\ Validated(i[1], i[2]))
          => IF pc'[p] = "auth_compare"
             THEN admin_audit_log' = admin_audit_log /\ resp' = NoResponse
             ELSE /\ AppendsOne
                  /\ ~Appended.success
                  /\ Appended.action = "login_failed"
                  /\ (Appended.admin_id = 0) <=> (Targets(i[1]) = {})
                  /\ Appended.admin_id # 0 => Appended.admin_id \in Targets(i[1])
                  /\ (pc'[p] = "auth_delay") <=> (Targets(i[1]) = {})
                  /\ resp'.status # 200
     /\ \A p \in Procs :
          LoginAfterDelay(p)
          => admin_audit_log' = admin_audit_log /\ resp'.status = 401
     /\ \A p \in Procs :
          LoginAfterCompare(p)
          => /\ AppendsOne
             /\ Appended.admin_id = local[p].id
             /\ Appended.admin_id # 0
             /\ Appended.success <=> (resp'.status = 200)
             /\ Appended.success <=>
                  BcryptCompare(req[p].password, local[p].password)]_vars

\* C14 witness: an unknown-user failure (admin_id null) and a success have
\* each left their one entry, and no call is in flight
C14_Witness ==
  /\ \A p \in Procs : pc[p] = "idle"
  /\ Len(admin_audit_log) = 2
  /\ \E m, n \in DOMAIN admin_audit_log :
        /\ admin_audit_log[m].admin_id = 0 /\ ~admin_audit_log[m].success
        /\ admin_audit_log[n].admin_id = 1 /\ admin_audit_log[n].success

\* C15: every call of changePassword that has ended, on whichever branch
\* (new password too short, unknown adminId, old-password mismatch,
\* success), has appended at least one audit entry in the step that ended it.
C15_ChangePasswordAlwaysAudited ==
  [][/\ \A p \in Procs, id \in ServiceChangeIds, i \in ServiceChangeInputs :
          (ChangePassword(p, id, i[1], i[2]) /\ resp' # NoResponse)
          => Len(admin_audit_log') > Len(admin_audit_log)
     /\ \A p \in Procs :
          (ChangePasswordAfterCompare(p) /\ resp' # NoResponse)
          => Len(admin_audit_log') > Len(admin_audit_log)
     /\ \A p \in Procs :
          ChangePasswordAfterHash(p)
          => Len(admin_audit_log') > Len(admin_audit_log)]_vars

\* C16: the audit log is append-only: every step of every operation leaves
\* the log as it was or extends it at the end; no entry already written is
\* changed or removed.
C16_AuditAppendOnly ==
  [][/\ Len(admin_audit_log') >= Len(admin_audit_log)
     /\ SubSeq(admin_audit_log', 1, Len(admin_audit_log)) = admin_audit_log]_vars

\* C16 witness: two operations have each appended their entry, a login and
\* after it a password change, a logout or the creation of an admin
C16_Witness ==
  /\ Len(admin_audit_log) = 2
  /\ admin_audit_log[1].action = "login_success"
  /\ admin_audit_log[2].action \in {"password_changed", "logout", "admin_created"}

(***************************************************************************)
(* Properties of changePassword (SpecChange)                               *)
(***************************************************************************)
\* the step answers a failure and leaves the admin rows and the Token Store
\* as they were
FailsWithoutEffect ==
  /\ resp'.status = 400
  /\ admins' = admins
  /\ refresh_tokens' = refresh_tokens
  /\ token_seq' = token_seq

\* C17: a changePassword whose new password is shorter than 8 characters,
\* or whose old password does not match the stored hash it read, fails and
\* leaves every stored password hash and every refresh token row unchanged;
\* at most the audit log grows.
C17_FailedChangeHasNoEffect ==
  [][/\ \A p \in Procs, id \in ServiceChangeIds, i \in ServiceChangeInputs :
          ( /\ ChangePassword(p, id, i[1], i[2])
            /\ Len(i[2]) < MIN_PASSWORD_LENGTH )
          => FailsWithoutEffect
     /\ \A p \in Procs, t \in AccessTokens, i \in RouteChangeInputs :
          ( /\ PostChangePassword(p, t, i[1], i[2])
            /\ Len(i[2]) < MIN_PASSWORD_LENGTH
            /\ t.exp > now )
          => FailsWithoutEffect
     /\ \A p \in Procs :
          ( /\ ChangePasswordAfterCompare(p)
            /\ local[p].password # BcryptHash(req[p].password) )
          => ( /\ FailsWithoutEffect
               /\ resp'.error = "Invalid old password"
               /\ pc'[p] = "idle" )]_vars

\* C17 witness: a change with a wrong old password has just failed; the
\* admin's hash is the one the right old password matches and a refresh
\* token row of the admin is still unrevoked
C17_Witness ==
  /\ resp.req.op = "change-password"
  /\ resp.error = "Invalid old password"
  /\ resp.req.password = P_wrong
  /\ admins[resp.req.token.id].password = BcryptHash(P_admin123)
  /\ \E row \in refresh_tokens :
        row.admin_id = resp.req.token.id /\ ~row.revoked


\* the Request Gate in front of the protected routes: every kind of token
\* arrives at every gated route, between logins, logouts, a password
\* change, (de)activation and time
NextGate ==
  \/ Tick
  \/ PostLogin(1, U_admin, P_admin123)
  \/ LoginAfterCompare(1)
  \/ \E h \in Presentable, c \in AccessTokens \cup {NoToken} : GetMe(h, c)
  \/ \E t \in Presentable : GetWaitlistAll(t)
  \/ \E t \in Presentable : GetWaitlistExport(t)
  \/ \E t \in Presentable : GetAuditLogs(t)
  \/ \E t \in Presentable : PostCreateAdmin(t, U_bob, P_bob)
  \/ \E t \in Presentable : PostLogout(t, NoToken)
  \/ \E t \in Presentable : PostLogoutAll(t)
  \/ \E t \in Presentable : PostChangePassword(1, t, P_admin123, P_new)
  \/ ChangePasswordAfterCompare(1)
  \/ ChangePasswordAfterHash(1)
  \/ DeactivateAdmin(1)
  \/ ActivateAdmin(1)

SpecGate == InitChange /\ [][NextGate]_vars

\* the usernames submitted to createAdmin: new ones in several spellings,
\* spellings of a stored one, and one too short once normalised
CreateNames == {U_bob, U_BOB_sp, U_Admin_sp, U_admin, U_Ab_sp}

\* the Credential Store under admin creation, through the route and by
\* direct calls, between logins and (de)activation
NextAdmins ==
  \/ PostLogin(1, U_admin, P_admin123)
  \/ LoginAfterCompare(1)
  \/ \E t \in Presentable, u \in CreateNames : PostCreateAdmin(t, u, P_bob)
  \/ \E u \in CreateNames, pw \in {P_bob, P_short} : CreateAdmin(u, pw)
  \/ \E t \in Presentable : GetMe(t, NoToken)
  \/ GetAllAdmins
  \/ \E id \in 1..MaxAdmins : DeactivateAdmin(id)
  \/ \E id \in 1..MaxAdmins : ActivateAdmin(id)

SpecAdmins == InitChange /\ [][NextAdmins]_vars

\* what localStorage can hold when the page is loaded: nothing, the access
\* token of bob's session in this browser (with its cookies in the jar), or
\* a token of a former server run, whose JWT_SECRET is gone
StoredSessions ==
  LET bob == WithoutPassword(SuccessRow(SecondAdmin, 0))
  IN {[storage |-> NoToken, cookie |-> NoToken, refreshCookie |-> NoToken],
      [storage |-> ForgedToken, cookie |-> NoToken, refreshCookie |-> NoToken],
      [storage |-> GenerateAccessToken(bob, 0),
       cookie |-> GenerateAccessToken(bob, 0),
       refreshCookie |-> GenerateRefreshToken(bob, 0)]}

\* the dashboard after loading index.html: useState(localStorage.getItem(..))
Mounted(crossOrigin, session) ==
  [NoClient EXCEPT !.crossOrigin = crossOrigin, !.storage = session.storage,
                   !.token = session.storage, !.cookie = session.cookie,
                   !.refreshCookie = session.refreshCookie]

\* the server with both admins and bob's session of time 0, and the
\* dashboard just loaded, from the API's origin or from another
InitClient ==
  /\ JWT_REFRESH_EXPIRES_IN = RefreshTicks
  /\ now = 0
  /\ admins = <<DefaultAdmin, SuccessRow(SecondAdmin, 0)>>
  /\ refresh_tokens =
       StoreRefreshToken({}, 0, 2,
         Sha256(GenerateRefreshToken(WithoutPassword(SecondAdmin), 0)),
         ToISOString(REFRESH_ROW_LIFETIME))
  /\ token_seq = 1
  /\ admin_audit_log = <<>>
  /\ issued = {GenerateAccessToken(WithoutPassword(SecondAdmin), 0),
               GenerateRefreshToken(WithoutPassword(SecondAdmin), 0)}
  /\ loginLimiter = NoHits
  /\ pc = [p \in Procs |-> "idle"]
  /\ req = [p \in Procs |-> NoRequest]
  /\ local = [p \in Procs |-> NoAdmin]
  /\ resp = NoResponse
  /\ \E crossOrigin \in BOOLEAN, session \in StoredSessions :
       client = Mounted(crossOrigin, session)

\* the dashboard's data requests: the page checks its token, the admin logs
\* in and fetches the waitlist, while time passes; the server answers each
\* request in flight
NextDashboard ==
  \/ Tick
  \/ CheckAuth
  \/ ServesCheckAuth
  \/ CheckAuthAnswered
  \/ CheckAuthRejected
  \/ Login
  \/ client.login = "wait" /\ PostLogin(1, U_admin, P_admin123)
  \/ LoginAfterCompare(1)
  \/ LoginAnswered
  \/ LoginRejected
  \/ \E op \in {"waitlist/all", "waitlist/export"} : ApiCall(op)
  \/ ServesApi
  \/ ApiAnswered

SpecDashboard == InitClient /\ [][NextDashboard]_vars

\* the end of a session: the page checks its token, the admin changes the
\* password and logs out; the server answers each request in flight
NextSession ==
  \/ Tick
  \/ CheckAuth
  \/ ServesCheckAuth
  \/ CheckAuthAnswered
  \/ CheckAuthRejected
  \/ Logout
  \/ ServesLogout
  \/ LogoutAnswered
  \/ LogoutRejected
  \/ ChangePasswordCall
  \/ /\ client.changePassword = "wait"
     /\ \E old \in {P_wrong, P_bob} :
          PostChangePassword(2, ExtractToken(BearerHeader(client.bearer),
                                             SentCookie("include", client.cookie)),
                             old, P_new)
  \/ ChangePasswordAfterCompare(2)
  \/ ChangePasswordAfterHash(2)
  \/ ChangePasswordAnswered
  \/ ChangePasswordRejected

SpecSession == InitClient /\ [][NextSession]_vars

(***************************************************************************)
(* Properties of the Request Gate                                          *)
(***************************************************************************)
\* the token carries JWT_SECRET's signature and has not reached its exp
Verifies(token) == token.signed /\ now < token.exp

\* the step answered with the gate's rejection for the token and changed
\* nothing else
Rejected(token) ==
  /\ IF token = NoToken
     THEN resp'.status = 401 /\ resp'.code = "NO_TOKEN"
     ELSE IF token.signed
     THEN resp'.status = 401 /\ resp'.code = "TOKEN_EXPIRED"
     ELSE resp'.status = 403
  /\ resp'.user = NoUser
  /\ UNCHANGED <<admins, refresh_tokens, token_seq, admin_audit_log, issued, pc,
                 req, local>>

\* the step ran a handler that logs once, under the claims of the token
HandledOnce(token, action) ==
  /\ resp'.status = 200
  /\ AppendsOne
  /\ Appended.admin_id = token.id
  /\ Appended.action = action

\* the routes behind authenticateToken
GatedOps ==
  {"me", "logout", "logout-all", "change-password", "create-admin",
   "waitlist/all", "waitlist/export", "audit-logs"}

\* the codes of the gate's rejections
GateCodes == {"NO_TOKEN", "TOKEN_EXPIRED", "INVALID_TOKEN"}

\* C18: a request without a token in the Authorization header and in the
\* auth_token cookie is answered 401 NO_TOKEN, one with a signed token past
\* its exp 401 TOKEN_EXPIRED, one with any other token that does not verify
\* 403, each without any effect at every gated route; a request whose token
\* verifies reaches the handler, which runs once with the token's claims.
C18_GateOutcomes ==
  [][/\ resp'.req.op = "me" =>
          \A h \in Presentable, c \in AccessTokens \cup {NoToken} :
             GetMe(h, c) =>
               LET token == IF h = NoToken THEN c ELSE h
               IN /\ (h = NoToken /\ c = NoToken)
                       => (resp'.status = 401 /\ resp'.code = "NO_TOKEN")
                  /\ (token # NoToken /\ token.signed /\ token.exp <= now)
                       => (resp'.status = 401 /\ resp'.code = "TOKEN_EXPIRED")
                  /\ (token # NoToken /\ ~token.signed) => resp'.status = 403
                  /\ Verifies(token)
                       => (resp'.code \notin GateCodes /\ resp'.req.token = token)
     /\ resp'.req.op \in GatedOps \ {"change-password"} =>
          LET token == resp'.req.token
          IN IF ~Verifies(token)
             THEN Rejected(token)
             ELSE /\ resp'.code \notin GateCodes
                  /\ resp'.req.op = "me" =>
                       /\ resp'.status \in {200, 404}
                       /\ resp'.status = 200 <=> token.id \in DOMAIN admins
                       /\ resp'.status = 200 => resp'.user.id = token.id
                  /\ resp'.req.op = "logout" => HandledOnce(token, "logout")
                  /\ resp'.req.op = "logout-all"
                       => HandledOnce(token, "logout_all_devices")
     /\ \A t \in Presentable :
          PostChangePassword(1, t, P_admin123, P_new) =>
            IF Verifies(t)
            THEN resp'.status \notin {401, 403}
                 /\ (pc'[1] = "cp_compare" => req'[1].token = t)
            ELSE Rejected(t)]_vars

\* a request with an expired token was answered 401 TOKEN_EXPIRED
C18_Witness ==
  /\ resp.req.op = "logout-all"
  /\ resp.req.token.signed
  /\ resp.req.token.exp <= now
  /\ resp.status = 401
  /\ resp.code = "TOKEN_EXPIRED"

\* the routes behind authenticateToken and requireAdmin
AdminOps == {"waitlist/all", "waitlist/export", "create-admin", "audit-logs"}

GateDecision(token) ==
  LET gate == AuthenticateToken(Request("me", <<>>, <<>>, <<>>, token, NoToken), now)
  IN <<gate.status, gate.code>>

\* C20: the gate's decision for a token depends on the token and the time
\* alone: no step that changes the admin rows, the refresh token rows or the
\* audit log (logout, logout-all, password change, deactivation, login,
\* admin creation) changes the decision for any token at that time, and a
\* signed token before its exp is let through in every state.
C20_GateStateless ==
  [][/\ (now' = now /\ <<admins, refresh_tokens, admin_audit_log>>'
                        # <<admins, refresh_tokens, admin_audit_log>>)
          => \A t \in Presentable : GateDecision(t)' = GateDecision(t)
     /\ \A t \in Presentable : Verifies(t) => GateDecision(t)[1] = 0]_vars

\* an access token is let through although its admin has been deactivated
\* and every refresh token row of the admin is revoked
C20_Witness ==
  /\ resp.req.op = "me"
  /\ resp.status = 200
  /\ resp.req.token.type # "refresh"
  /\ ~admins[resp.req.token.id].is_active
  /\ \A row \in refresh_tokens : row.admin_id = resp.req.token.id => row.revoked
  /\ \E row \in refresh_tokens : row.admin_id = resp.req.token.id

(***************************************************************************)
(* Properties of the login rate limiter                                    *)
(***************************************************************************)
\* the requests of address a the limiter counts in the window now running
HitsInWindow(a) ==
  IF loginLimiter.resetTime[a] <= now THEN 0 ELSE loginLimiter.hits[a]

\* the step changed nothing that authenticate or the login handler writes
NoLoginEffect ==
  UNCHANGED <<admins, refresh_tokens, token_seq, admin_audit_log, issued, pc, req,
              local>>

\* C21: a login request of an address that already has 5 counted requests
\* in its window is answered 429 RATE_LIMIT_EXCEEDED without reaching
\* authenticate (no row, no audit entry, no token changes); one that passes
\* the limiter while the account's lock is in force is refused as locked;
\* tokens are issued only when a request that passed both completes, and
\* then its hit is taken back, while a request that fails keeps its hit.
C21_BothLoginDefenses ==
  [][/\ \A p \in Procs, a \in Addrs, i \in LockoutLogins :
          LimitedLogin(p, a, i[1], i[2]) =>
            /\ issued' = issued
            /\ resp'.accessToken = NoToken
            /\ loginLimiter'.hits[a] = HitsInWindow(a) + 1
            /\ HitsInWindow(a) >= LOGIN_RATE_MAX =>
                 /\ resp'.status = 429
                 /\ resp'.code = "RATE_LIMIT_EXCEEDED"
                 /\ NoLoginEffect
            /\ ( /\ HitsInWindow(a) < LOGIN_RATE_MAX
                 /\ Validated(i[1], i[2])
                 /\ \E k \in Targets(i[1]) :
                       /\ admins[k].locked_until # NULL
                       /\ now < ParseDate(admins[k].locked_until) )
               => (IsAccountLocked(resp') /\ pc' = pc /\ admins' = admins)
     /\ \A p \in Procs :
          (LoginAfterDelay(p) \/ LoginAfterCompare(p)) =>
            IF resp'.status = 200
            THEN /\ pc[p] = "auth_compare"
                 /\ \A a \in Addrs :
                      loginLimiter'.hits[a] =
                        IF a = loginLimiter.key[p] /\ loginLimiter.hits[a] > 0
                        THEN loginLimiter.hits[a] - 1
                        ELSE loginLimiter.hits[a]
            ELSE /\ issued' = issued
                 /\ refresh_tokens' = refresh_tokens
                 /\ loginLimiter'.hits = loginLimiter.hits]_vars

\* the right password of an unlocked account was turned away by the limiter
C21_Witness ==
  /\ resp.req.op = "login"
  /\ resp.status = 429
  /\ resp.code = "RATE_LIMIT_EXCEEDED"
  /\ \E k \in Targets(resp.req.username) :
        /\ BcryptCompare(resp.req.password, admins[k].password)
        /\ admins[k].locked_until = NULL
        /\ admins[k].is_active
  /\ admin_audit_log = <<>>

(***************************************************************************)
(* Properties of the disabled account                                      *)
(***************************************************************************)
\* C22: a login for a deactivated admin whose lock is not in force is
\* refused at once with 'Account is disabled', before the password is
\* compared (so for the right password too); the row's attempt count is not
\* raised, no lock is set and last_login stays as it was.
C22_DisabledRefused ==
  [][\A p \in Procs, i \in LockoutLogins :
       ( /\ PostLogin(p, i[1], i[2])
         /\ Validated(i[1], i[2])
         /\ \E k \in Targets(i[1]) :
               /\ ~admins[k].is_active
               /\ ( \/ admins[k].locked_until = NULL
                    \/ now >= ParseDate(admins[k].locked_until) ) )
       => ( /\ resp'.status = 401
            /\ resp'.error = "Account is disabled"
            /\ resp'.req.password = i[2]
            /\ resp'.accessToken = NoToken
            /\ pc' = pc
            /\ \A k \in DOMAIN admins :
                  /\ admins'[k].login_attempts <= admins[k].login_attempts
                  /\ admins'[k].locked_until \in {NULL, admins[k].locked_until}
                  /\ admins'[k].last_login = admins[k].last_login
                  /\ admins'[k].is_active = admins[k].is_active )]_vars

\* the right password was refused for a deactivated admin whose counted
\* failures are still what they were
C22_Witness ==
  /\ resp.req.op = "login"
  /\ resp.error = "Account is disabled"
  /\ \E k \in Targets(resp.req.username) :
        /\ BcryptCompare(resp.req.password, admins[k].password)
        /\ ~admins[k].is_active
        /\ admins[k].login_attempts > 0
        /\ admins[k].locked_until = NULL
        /\ admins[k].last_login = NULL

(***************************************************************************)
(* Properties of token issuance at login                                   *)
(***************************************************************************)
\* C23: after a login answered 200 the Token Store holds an unrevoked row
\* of that admin whose token_hash is the hash of the returned refresh
\* token, and a refresh with the returned token made right then succeeds; a
\* login step that is not answered 200 leaves the Token Store as it was.
C23_LoginPersistsRefreshToken ==
  [][/\ (resp.req.op = "login" /\ resp.status = 200) =>
          /\ \E row \in refresh_tokens :
                /\ row.token_hash = Sha256(resp.refreshToken)
                /\ row.admin_id = resp.user.id
                /\ ~row.revoked
          /\ PostRefresh(resp.refreshToken) => resp'.status = 200
     /\ (resp'.req.op = "login" /\ resp'.status # 200) =>
          refresh_tokens' = refresh_tokens]_vars

(***************************************************************************)
(* Properties of revocation and of the sweep                               *)
(***************************************************************************)
\* the adminId values revokeAllRefreshTokens is called with: stored ids and
\* ids without a row
RevokeAllIds == 0..(MaxAdmins + 1)

\* C24: on every reachable Token Store, revoking a token a second time and
\* revoking all tokens of an admin a second time change nothing more than
\* the first time, and revoking a token that has no row changes nothing.
C24_RevokeIdempotent ==
  /\ \A t \in Presentable :
        LET once == RevokeRefreshToken(refresh_tokens, Sha256(t))
        IN /\ RevokeRefreshToken(once, Sha256(t)) = once
           /\ RowsOf(t) = {} => once = refresh_tokens
           /\ \A row \in once : row.token_hash = Sha256(t) => row.revoked
  /\ \A id \in RevokeAllIds :
        LET once == RevokeAllRefreshTokens(refresh_tokens, id)
        IN /\ RevokeAllRefreshTokens(once, id) = once
           /\ \A row \in once : row.admin_id = id => row.revoked

\* a logout has revoked the presented token while another row is unrevoked
C24_Witness ==
  /\ resp.req.op = "logout"
  /\ resp.status = 200
  /\ RowsOf(resp.req.refreshToken) # {}
  /\ \A row \in RowsOf(resp.req.refreshToken) : row.revoked
  /\ \E row \in refresh_tokens : ~row.revoked

\* C25: at whatever earlier time the sweep ran, every row it deleted had its
\* expires_at in the past, and for every presentable token the rows that
\* verifyRefreshToken finds now are the same with and without the sweep, so
\* a refresh is answered alike.
C25_SweepNotObservable ==
  \A s \in 0..now :
     LET swept == CleanupExpiredTokens(refresh_tokens, s)
     IN /\ swept \subseteq refresh_tokens
        /\ \A row \in refresh_tokens \ swept : ParseDate(row.expires_at) < s
        /\ \A t \in Presentable :
              VerifyRefreshToken(swept, Sha256(t), now)
                = VerifyRefreshToken(refresh_tokens, Sha256(t), now)

\* the sweep has deleted the row of a refresh token whose signature is
\* still good, and the refresh with it was answered as for an expired row
C25_Witness ==
  /\ resp.req.op = "refresh"
  /\ resp.status = 403
  /\ resp.code = "TOKEN_REVOKED"
  /\ resp.req.refreshToken \in issued
  /\ now < resp.req.refreshToken.exp
  /\ RowsOf(resp.req.refreshToken) = {}
  /\ token_seq > Cardinality(refresh_tokens)


\* the lowercase, trimmed form of a submitted username
NormalForm(s) == Trim([i \in DOMAIN s |-> LowerChar(s[i])])

\* every stored username is lowercase, trimmed and of at least 3 characters,
\* and no two rows carry the same one
StoredNamesOK(rows) ==
  /\ \A i \in DOMAIN rows :
       LET u == rows[i].username
       IN /\ Len(u) >= 3
          /\ \A k \in DOMAIN u : u[k] \notin Range(UpperChars)
          /\ u[1] \notin Whitespace
          /\ u[Len(u)] \notin Whitespace
  /\ \A i, j \in DOMAIN rows : rows[i].username = rows[j].username => i = j

\* C26: usernames stay unique and normalized: before and after every step all
\* stored usernames are lowercase, trimmed, at least 3 characters long and
\* pairwise distinct, and a createAdmin (called directly or through the
\* route) with a username whose normalized form is already stored fails and
\* leaves the admins table as it was
C26_UsernamesUniqueNormalized ==
  [][/\ StoredNamesOK(admins)
     /\ StoredNamesOK(admins')
     /\ (/\ resp'.req.op \in {"createAdmin", "create-admin"}
         /\ \E i \in DOMAIN admins :
              admins[i].username = NormalForm(resp'.req.username))
        => /\ resp'.status >= 400
           /\ admins' = admins]_vars

\* a second admin is stored, and a direct createAdmin with a well-formed
\* password and another spelling of that admin's name was answered
\* "Username already exists"
C26_Witness ==
  /\ Len(admins) = 2
  /\ resp.req.op = "createAdmin"
  /\ resp.req.username # admins[2].username
  /\ NormalForm(resp.req.username) = admins[2].username
  /\ resp.status = 400
  /\ resp.error = "Username already exists"


\* C27: last_login is written only by a successful authentication: a step
\* that changes an admin's last_login is the answer 200 of a login of that
\* admin, and a row that a step adds has no last_login; so failing logins,
\* password changes, refreshes, logouts, creations, (de)activations and the
\* sweep leave every last_login as it was
C27_LastLoginOnlyOnSuccess ==
  [][/\ \A i \in DOMAIN admins :
          i \in DOMAIN admins' /\
          (admins'[i].last_login # admins[i].last_login
             => /\ resp'.req.op = "login"
                /\ resp'.status = 200
                /\ resp'.user.id = i)
     /\ \A i \in DOMAIN admins' \ DOMAIN admins : admins'[i].last_login = NULL]_vars

\* the admin logged in on an earlier day, and a login of that admin with a
\* wrong password has just been refused
C27_Witness ==
  /\ admins[1].last_login # NULL
  /\ admins[1].last_login # CURRENT_TIMESTAMP(now)
  /\ resp.req.op = "login"
  /\ LookupName(resp.req.username) = admins[1].username
  /\ resp.status = 401
  /\ IsInvalidCredentials(resp)


\* a value handed to a caller or client that carries no password column
NoHash(u) == "password" \notin DOMAIN u

\* C28: the password hash never leaves the core: the user object of every
\* answer (the result of authenticate in the login body, of getAdminById in
\* the current-user body, of createAdmin) and every row returned by
\* getAllAdmins is without the password column, while the stored rows keep it
C28_HashNeverReturned ==
  /\ NoHash(resp.user)
  /\ \A u \in resp.users : NoHash(u)
  /\ \A i \in DOMAIN admins : ~NoHash(admins[i])

\* a login was answered 200 with the user object of the stored admin
C28_Witness ==
  /\ resp.req.op = "login"
  /\ resp.status = 200
  /\ resp.user.id = 1
  /\ resp.user.username = admins[1].username
  /\ admins[1].password = BcryptHash(P_admin123)


\* the validated login request r names no stored admin
UnknownUser(r) ==
  /\ r.op = "login"
  /\ Validated(r.username, r.password)
  /\ Targets(r.username) = {}

\* C29: unknown-user ordering: the step in which authenticate finds no row
\* appends the failed audit entry with admin_id null (0) and delivers nothing,
\* leaving the call suspended on the delay; the call's failure, Invalid
\* credentials, is delivered by the step that ends the delay, which writes
\* nothing; no answer to a login for an unknown username is delivered by any
\* other step; and a call suspended on the delay is always resumed
C29_UnknownUserOrdering ==
  /\ [][/\ \A p \in Procs :
             /\ (pc[p] = "idle" /\ pc'[p] = "auth_delay")
                  => /\ UnknownUser(req'[p])
                     /\ AppendsOne
                     /\ Appended = AuditEntry(0, "login_failed", FALSE,
                                              <<"User not found">>)
                     /\ resp' = NoResponse
             /\ (pc[p] = "auth_delay" /\ pc'[p] # "auth_delay")
                  => /\ pc'[p] = "idle"
                     /\ resp'.req = req[p]
                     /\ IsInvalidCredentials(resp')
                     /\ admin_audit_log' = admin_audit_log
                     /\ admins' = admins
        /\ UnknownUser(resp'.req)
             => \E p \in Procs : /\ pc[p] = "auth_delay"
                                 /\ pc'[p] = "idle"
                                 /\ req[p] = resp'.req]_vars
  /\ \A p \in Procs : (pc[p] = "auth_delay") ~> (pc[p] = "idle")

\* a login for an unknown username was answered Invalid credentials after its
\* delay, the audit entry with admin_id null written before it
C29_Witness ==
  /\ UnknownUser(resp.req)
  /\ IsInvalidCredentials(resp)
  /\ \E k \in DOMAIN admin_audit_log :
       admin_audit_log[k] = AuditEntry(0, "login_failed", FALSE, <<"User not found">>)
  /\ \A p \in Procs : pc[p] = "idle"


\* the rows of refresh_tokens a logout presenting refresh token rt names
Presented(rt) ==
  IF rt = NoToken THEN {} ELSE {row \in refresh_tokens : row.token_hash = Sha256(rt)}

\* C30: logout revokes only what was presented: a logout that passes the
\* gate is answered 200; the rows whose token_hash is the hash of the refresh
\* token it carried are revoked afterwards and every other row is as it was
\* (with no refresh token carried, every row); and exactly one 'logout' audit
\* entry for the caller is appended
C30_LogoutRevokesPresented ==
  [][(resp'.req.op = "logout" /\ AuthenticateToken(resp'.req, now).status = 0)
       => /\ resp'.status = 200
          /\ refresh_tokens' =
               (refresh_tokens \ Presented(resp'.req.refreshToken))
                 \cup {[row EXCEPT !.revoked = TRUE] :
                         row \in Presented(resp'.req.refreshToken)}
          /\ \A row \in refresh_tokens \ Presented(resp'.req.refreshToken) :
               row \in refresh_tokens'
          /\ AppendsOne
          /\ Appended = AuditEntry(resp'.req.token.id, "logout", TRUE, <<>>)]_vars

\* a logout carrying a refresh token was answered 200: the row of that token
\* is revoked and another admin's row is still unrevoked
C30_Witness ==
  /\ resp.req.op = "logout"
  /\ resp.status = 200
  /\ resp.req.refreshToken # NoToken
  /\ \E row \in RowsOf(resp.req.refreshToken) : row.revoked
  /\ \E row \in refresh_tokens :
       row.token_hash # Sha256(resp.req.refreshToken) /\ ~row.revoked


(***************************************************************************)
(* Properties of overlapping calls                                         *)
(***************************************************************************)
\* C31: a lock is never lifted early by in-flight attempts: while an admin's
\* locked_until lies in the future, no step (the resumption of a login that
\* read the row before the lock was written included) clears locked_until,
\* lowers login_attempts or answers a login of that admin with success
C31_LockNotLiftedEarly ==
  [][\A k \in DOMAIN admins :
       LockInForce(admins[k], now)
         => /\ admins'[k].locked_until # NULL
            /\ admins'[k].login_attempts >= admins[k].login_attempts
            /\ ~(resp'.req.op = "login" /\ resp'.status = 200 /\ resp'.user.id = k)]_vars


\* C32: a refresh token is never accepted as an access credential: a request
\* to a route behind authenticateToken whose bearer token carries
\* type = "refresh" is answered by the gate with one of its rejections, so
\* the logout-all, change-password and current-user handlers are not reached
C32_RefreshNotAccessCredential ==
  [][(resp'.req.op \in {"me", "logout-all", "logout"}
        /\ resp'.req.token.type = "refresh")
       => /\ resp'.code \in GateCodes
          /\ resp'.user = NoUser
          /\ refresh_tokens' = refresh_tokens
          /\ admin_audit_log' = admin_audit_log]_vars


\* C33: password change versus a concurrent login: a login that verified a
\* password which changePassword has since replaced (changePassword has
\* returned success) leaves no unrevoked refresh token of that admin when it
\* is answered
C33_NoTokenFromOldPassword ==
  [][\A p \in Procs :
       ( /\ pc[p] = "auth_compare"
         /\ pc'[p] = "idle"
         /\ resp'.req = req[p]
         /\ resp'.status = 200
         /\ ~BcryptCompare(req[p].password, admins[local[p].id].password) )
       => \A row \in refresh_tokens' :
            row.admin_id = local[p].id => row.revoked]_vars


\* C34: the attempt counter is bounded by the threshold: every admin's
\* login_attempts is between 0 and MAX_LOGIN_ATTEMPTS, also after a lock has
\* expired and further wrong passwords were submitted
C34_CounterBounded ==
  \A k \in DOMAIN admins :
    admins[k].login_attempts >= 0 /\ admins[k].login_attempts <= MAX_LOGIN_ATTEMPTS


\* C35: counter and lock are stored consistently: in every state, under
\* sequential and overlapping authenticate calls alike, an admin's
\* locked_until is non-null if and only if its login_attempts is at least
\* MAX_LOGIN_ATTEMPTS
C35_CounterLockConsistent ==
  \A k \in DOMAIN admins :
    (admins[k].locked_until # NULL) <=> (admins[k].login_attempts >= MAX_LOGIN_ATTEMPTS)

\* a lock was written while another login, which read the row without the
\* lock, is still suspended at the password comparison
C35_Witness ==
  \E p \in Procs :
    /\ pc[p] = "auth_compare"
    /\ local[p].locked_until = NULL
    /\ admins[local[p].id].locked_until # NULL
    /\ admins[local[p].id].login_attempts >= MAX_LOGIN_ATTEMPTS


\* C36: logout cannot revoke another admin's token: a logout that passed the
\* gate with the token of admin A revokes no row of refresh_tokens whose
\* admin_id is a different admin, whatever refresh token the request carried
C36_LogoutRevokesOwnOnly ==
  [][(resp'.req.op = "logout" /\ resp'.status = 200)
       => \A row \in refresh_tokens :
            (row.admin_id # resp'.req.token.id /\ ~row.revoked)
              => row \in refresh_tokens']_vars


(***************************************************************************)
(* Properties of the dashboard (SpecDashboard, SpecSession)                *)
(***************************************************************************)
\* C37: dashboard data requests are authorized after login: with the
\* dashboard on another origin than the API, once AuthContext holds user and
\* a token that still verifies, the request of api.getAllSignups or
\* api.exportToCSV reaches the server carrying a credential and is answered
\* 200 by GET /api/waitlist/all or /export
C37_DashboardRequestsAuthorized ==
  [][( /\ resp'.req.op \in {"waitlist/all", "waitlist/export"}
       /\ client.crossOrigin
       /\ client.user # NoUser
       /\ client.user.role = "admin"
       /\ Verifies(client.token) )
       => /\ resp'.req.token # NoToken
          /\ resp'.status = 200]_vars


\* the dashboard holds no session: user and token are null and localStorage
\* has no auth_token
LoggedOut(c) == c.user = NoUser /\ c.token = NoToken /\ c.storage = NoToken

\* C38: client logout always clears the session: the step in which logout()
\* completes, with the server's answer (200 or a rejection) or with the
\* fetch rejected by the network, leaves user null, token null and no
\* auth_token in localStorage; and the step in which a changePassword that
\* the server accepted completes leaves that logged-out state
C38_LogoutClearsSession ==
  [][/\ (client.logout = "wait" /\ client'.logout = "idle") => LoggedOut(client')
     /\ (client.changePassword = "logout" /\ client'.changePassword = "idle")
          => LoggedOut(client')]_vars

\* the server changed the password and then handled a logout of the same
\* admin, and the dashboard, with nothing in flight, holds no session
C38_Witness ==
  /\ LoggedOut(client)
  /\ client.logout = "idle"
  /\ client.changePassword = "idle"
  /\ client.bearer # NoToken
  /\ Len(admin_audit_log) = 2
  /\ admin_audit_log[1].action = "password_changed"
  /\ admin_audit_log[2].action = "logout"
  /\ admin_audit_log[2].admin_id = client.bearer.id


\* C39: client session state stays consistent under the mount-time check:
\* the step in which checkAuth completes while a token stored by a
\* successful login() of this page is held leaves that token in place (state
\* token = localStorage auth_token = the login's token) and isAuthenticated
\* true; a late failure of checkAuth for the old token does not remove it
C39_CheckAuthKeepsNewerLogin ==
  [][( /\ client.checkAuth = "wait"
       /\ client'.checkAuth = "done"
       /\ client.login = "idle"
       /\ client.storage # NoToken
       /\ client.storage # client.storedToken
       /\ client.token = client.storage
       /\ client.user # NoUser )
       => /\ client'.storage = client.storage
          /\ client'.token = client.storage
          /\ client'.user # NoUser]_vars

====
